---- MODULE Spec2Model ----
(***************************************************************************)
(* Shared Pantry backend (eatsite/backend/server.js, second server         *)
(* definition, lines 364-1116): the JSON workspace store, the access gate, *)
(* the join quota, the WebSocket connection registry with its broadcast,   *)
(* and the price table with its derived best_price / best_store.           *)
(*                                                                         *)
(* Every HTTP handler is synchronous (readFileSync / writeFileSync, and    *)
(* express calls next() synchronously), so one request is one action.      *)
(***************************************************************************)
EXTENDS Integers, Sequences, FiniteSets, TLC

(* ---------------------------------------------------------------------- *)
(* Bounds of the model                                                     *)
(* ---------------------------------------------------------------------- *)
\* process.env.MAX_CLIENTS_PER_WORKSPACE, the configured maximum N
MAX_CLIENTS_PER_WORKSPACE == 2
\* number of uuids handed out to products and recipes
MaxIds == 2
\* largest numeric price a request carries
MaxPrice == 2
\* number of WebSocket connection objects
MaxSockets == 2
\* messages and responses on the way to the frontend at one time
MaxInFlight == 2

(* ---------------------------------------------------------------------- *)
(* Values                                                                  *)
(* ---------------------------------------------------------------------- *)
WsIds == {"w1", "w2"}
\* a header / query value that is absent or empty is falsy in the gate
NoId == ""

\* JSON null where the field otherwise holds a string
NullStr == "<null>"
\* JSON null where the field otherwise holds a number
Null == -1
\* the IEEE NaN that parseFloat returns for a non-numeric input
NaN == -2
\* a request body whose price is not numeric (e.g. "abc")
BadPrice == -3
\* a request body without a price field
NoPrice == -4

\* uuidv4() for a client token: a value no earlier call returned. Tokens are
\* never removed from active_clients, so the k-th token of workspace w is
\* named <<w, k>>; the code only ever tests tokens for equality.
NoToken == <<NoId, 0>>
\* a well-formed token that no join ever returned
BogusToken == <<"bogus", 0>>
\* the token of a workspace written by the first server definition
LegacyToken == <<"legacy", 0>>

Sockets == 1..MaxSockets

Range(s) == {s[i] : i \in 1..Len(s)}

\* mutant: the string as written
toLowerCase_AsWritten(s) == s

\* String.prototype.toLowerCase on the strings of the model
toLowerCase(s) ==
    CASE s = "Milk" -> "milk"
      [] s = "Dairy" -> "dairy"
      [] s = "Molochnye" -> "molochnye"
      [] s = "Prochee" -> "prochee"
      [] s = "Snacks" -> "snacks"
      [] s = "Tea" -> "tea"
      [] OTHER -> s

\* the JS value undefined; a field JSON.stringify leaves out reads as this
Undefined == "<undefined>"
\* the function Object, which every object literal inherits as .constructor
FunctionObject == "<function Object>"
\* a TypeError thrown by the call
TypeError == "<TypeError>"

\* JS falsiness of a category value
Falsy(x) == x \in {"", NullStr, Undefined}

\* JSON.stringify leaves out a field whose value is a function
JsonStr(x) == IF x = FunctionObject THEN Undefined ELSE x

CATEGORY_MAPPING == [dairy |-> "Molochnye", other |-> "Prochee"]

\* Object.prototype, as far as a lookup in an object literal reaches it
ObjectPrototype == [constructor |-> FunctionObject]

\* obj[key] on an object literal: own properties, then the prototype's
Get(obj, key) ==
    IF key \in DOMAIN obj THEN obj[key]
    ELSE IF key \in DOMAIN ObjectPrototype THEN ObjectPrototype[key]
    ELSE Undefined

\* mutant: every known slug maps to the label of 'other'
normalizeCategory_AllOther(category) ==
    IF Falsy(category) THEN "Prochee"
    ELSE IF toLowerCase(category) \in DOMAIN CATEGORY_MAPPING THEN "Prochee"
    ELSE category

normalizeCategory(category) ==
    IF Falsy(category) THEN "Prochee"
    ELSE IF category = FunctionObject THEN TypeError
    ELSE IF ~Falsy(Get(CATEGORY_MAPPING, toLowerCase(category)))
         THEN Get(CATEGORY_MAPPING, toLowerCase(category))
         ELSE category

\* the default base basket (one entry of it)
BASE_BASKET ==
    << [name |-> "Milk", category |-> "Molochnye", in_stock |-> FALSE] >>

\* an optional field of a JSON body
Field(body, f, default) == IF f \in DOMAIN body THEN body[f] ELSE default
\* JS truthiness of an optional string field
Truthy(body, f) == f \in DOMAIN body /\ body[f] # "" /\ body[f] # NullStr

(* ---------------------------------------------------------------------- *)
(* State                                                                   *)
(* ---------------------------------------------------------------------- *)
VARIABLES
    family,         \* the route family the clients of this run use
    storesFile,     \* config/stores.json as the server finds it
    env,            \* process.env.MAX_CLIENTS_PER_WORKSPACE of the server process
    loop,           \* the event loop: requests in flight and the running callback
    client,         \* one frontend: its lists, and what is on the way to it
    workspaces,     \* data/workspaces.json: workspace id -> workspace record
    wsConnections,  \* Map workspace id -> Set of connections
    sock,           \* per connection object: readyState and closure workspaceId
    nextId,         \* next uuid for a product or recipe
    req,            \* the request handled by the last step
    resp,           \* its HTTP response
    trace,          \* loads, saves and broadcasts of the last step, in order
    sent            \* per connection: messages written to it in the last step

vars == <<family, storesFile, env, loop, client, workspaces, wsConnections, sock, nextId, req, resp, trace, sent>>

(* ---------------------------------------------------------------------- *)
(* The frontend of one client and what is on the way to it                 *)
(* ---------------------------------------------------------------------- *)
\* the client the model follows: its credentials and its connection
ClientWorkspace == "w1"
ClientToken == <<"w1", 1>>
ClientSocket == 1

\* the requests whose responses the frontend acts on
StateFetch == "GET /workspace/:id/state"
PricesFetch == "GET /prices"
ClientCalls == {"POST /prices", "DELETE /prices/:productName", "DELETE /products/:id"}

\* the frontend before connectToWorkspace
IdleClient ==
    [connected |-> FALSE, toFetch |-> {}, fetched |-> <<>>,
     currentProducts |-> <<>>, currentPrices |-> <<>>, ws |-> <<>>, http |-> <<>>]

\* the request was sent by the client, with its credentials
SentByClient(c, r) ==
    /\ c.connected
    /\ r.ws = ClientWorkspace
    /\ r.token = ClientToken
    /\ r.op \in ClientCalls \cup c.toFetch

\* a request was served: the messages written to the client's connection
\* join those on the way to it, and so does the response of its own request
Network(c, r, rs, written) ==
    IF ~c.connected THEN c
    ELSE [c EXCEPT
            !.ws = @ \o written[ClientSocket],
            !.http = IF SentByClient(c, r) THEN Append(@, [req |-> r, resp |-> rs]) ELSE @,
            !.toFetch = IF SentByClient(c, r) THEN @ \ {r.op} ELSE @]

\* the connection of the client was accepted: ws.onopen calls
\* loadInitialState, which fetches the state and the prices
Opened(c, r, written) ==
    IF family = "net" /\ r.id = ClientSocket /\ r.ws = ClientWorkspace /\ r.token = ClientToken
    THEN [c EXCEPT !.connected = TRUE,
                   !.toFetch = {StateFetch, PricesFetch},
                   !.ws = @ \o written[ClientSocket]]
    ELSE c

(* ---------------------------------------------------------------------- *)
(* Persistent store                                                        *)
(* ---------------------------------------------------------------------- *)
loadWorkspaces == workspaces

\* JSON.stringify writes NaN as null
JsonNum(x) == IF x = NaN THEN Null ELSE x

JsonPriceData(pd) ==
    [stores |-> [i \in 1..Len(pd.stores) |->
                    [id |-> pd.stores[i].id, price |-> JsonNum(pd.stores[i].price)]],
     best_store |-> pd.best_store,
     best_price |-> JsonNum(pd.best_price)]

\* JSON.stringify of a product or of a base-basket entry
JsonProduct(p) == [p EXCEPT !.category = JsonStr(@)]
JsonProducts(list) == [i \in 1..Len(list) |-> JsonProduct(list[i])]

JsonWorkspace(w) ==
    [k \in DOMAIN w |->
        CASE k = "prices" -> [n \in DOMAIN w.prices |-> JsonPriceData(w.prices[n])]
          [] k = "products" -> JsonProducts(w.products)
          [] k = "base_basket" -> JsonProducts(w.base_basket)
          [] OTHER -> w[k]]

\* the file content after saveWorkspaces(ws)
saveWorkspaces(ws) == [id \in DOMAIN ws |-> JsonWorkspace(ws[id])]

\* mutant: the record is written under every workspace id of the store
Put_All(ws, id, w) == [k \in DOMAIN ws \cup {id} |-> w]

\* workspaces[workspaceId] = workspace on the loaded object
Put(ws, id, w) == (id :> w) @@ ws

\* a workspace file written by the first server definition (no prices, no
\* base_basket)
LegacyStore ==
    "w1" :> [workspace_id |-> "w1", products |-> <<>>, recipes |-> <<>>,
             active_clients |-> <<LegacyToken>>]

(* ---------------------------------------------------------------------- *)
(* Events of a handler run and messages                                    *)
(* ---------------------------------------------------------------------- *)
NoMsg == [type |-> "none"]
Load == [ev |-> "load", ws |-> NoId, msg |-> NoMsg]
Save == [ev |-> "save", ws |-> NoId, msg |-> NoMsg]
Bcast(workspaceId, m) == [ev |-> "broadcast", ws |-> workspaceId, msg |-> m]

Quiet == [s \in Sockets |-> <<>>]

\* mutant: the state of the connection is not looked at
Recipients_AnyState(workspaceId) ==
    IF workspaceId \in DOMAIN wsConnections THEN wsConnections[workspaceId] ELSE {}

\* the connections broadcastToWorkspace writes to
Recipients(workspaceId) ==
    IF workspaceId \in DOMAIN wsConnections
    THEN {s \in wsConnections[workspaceId] : sock[s].readyState = 1}
    ELSE {}

\* mutant: every open registered connection is written to
broadcastToWorkspace_All(workspaceId, msgs) ==
    [s \in Sockets |->
        IF \E w \in DOMAIN wsConnections : s \in wsConnections[w] /\ sock[s].readyState = 1
        THEN msgs ELSE <<>>]

\* broadcastToWorkspace called once per message of msgs, in order
broadcastToWorkspace(workspaceId, msgs) ==
    [s \in Sockets |-> IF s \in Recipients(workspaceId) THEN msgs ELSE <<>>]

(* ---------------------------------------------------------------------- *)
(* Access gate                                                             *)
(* ---------------------------------------------------------------------- *)
\* mutant: the gate does not look the token up in active_clients
requireAccess_NoMembership(workspaceId, clientToken) ==
    IF workspaceId = NoId \/ clientToken = NoToken
    THEN [status |-> 401, error |-> "Missing workspace_id or client_token", loads |-> <<>>]
    ELSE IF workspaceId \notin DOMAIN workspaces
    THEN [status |-> 404, error |-> "Workspace not found", loads |-> <<Load>>]
    ELSE [status |-> 200, error |-> "", loads |-> <<Load>>]

requireAccess(workspaceId, clientToken) ==
    IF workspaceId = NoId \/ clientToken = NoToken
    THEN [status |-> 401, error |-> "Missing workspace_id or client_token", loads |-> <<>>]
    ELSE IF workspaceId \notin DOMAIN loadWorkspaces
    THEN [status |-> 404, error |-> "Workspace not found", loads |-> <<Load>>]
    ELSE IF clientToken \notin Range(loadWorkspaces[workspaceId].active_clients)
    THEN [status |-> 403, error |-> "Access denied", loads |-> <<Load>>]
    ELSE [status |-> 200, error |-> "", loads |-> <<Load>>]

\* the workspaces whose clients send requests in a run of family f: in the
\* data families the clients of w2 stay idle
ActiveWs(f) == IF f \in {"access", "hub"} THEN WsIds ELSE {"w1"}

\* workspace ids a client may present: one of a workspace, or none; the
\* clients of the net family present the id of their workspace
WsCreds == IF family = "net" THEN {ClientWorkspace} ELSE WsIds \cup {NoId}

\* tokens a client may present: none, a made-up one, or one a join returned;
\* the clients of the net family present a token a join returned
TokenCreds ==
    (IF family = "net" THEN {} ELSE {NoToken, BogusToken})
      \cup UNION {Range(workspaces[w].active_clients) :
                    w \in DOMAIN workspaces \cap ActiveWs(family)}

\* the parts of a request the handlers read: headers, path and body fields
NoArg == [name |-> "", store_id |-> "", price |-> NoPrice]

\* a request without a JSON body
NoBody == <<>>

Request(op, auth, workspaceId, clientToken, id) ==
    [op |-> op, auth |-> auth, ws |-> workspaceId, token |-> clientToken,
     id |-> id, path |-> NoId, arg |-> NoArg, category |-> Undefined,
     body |-> NoBody]

\* a request whose body may carry a category
BodyRequest(r, body) ==
    [r EXCEPT !.category = Field(body, "category", Undefined), !.body = body]

\* a request on /workspace/:id
PathRequest(op, auth, workspaceId, clientToken, path) ==
    [Request(op, auth, workspaceId, clientToken, 0) EXCEPT !.path = path]

\* a request on /prices
PriceRequest(op, auth, workspaceId, clientToken, arg) ==
    [Request(op, auth, workspaceId, clientToken, 0) EXCEPT !.arg = arg]

\* the gate answered: the handler does not run
Denied(r, g) ==
    /\ req' = r
    /\ resp' = [status |-> g.status, error |-> g.error, body |-> <<>>]
    /\ trace' = g.loads
    /\ sent' = Quiet
    /\ client' = Network(client, req', resp', sent')
    /\ UNCHANGED <<family, storesFile, env, loop, workspaces, wsConnections, sock, nextId>>

\* a handler that answers 200 without writing or broadcasting
Answer(r, body, tr) ==
    /\ req' = r
    /\ resp' = [status |-> 200, error |-> "", body |-> body]
    /\ trace' = tr
    /\ sent' = Quiet
    /\ client' = Network(client, req', resp', sent')
    /\ UNCHANGED <<family, storesFile, env, loop, workspaces, wsConnections, sock, nextId>>

\* a handler that answers with an error status
RejectWith(r, status, error, body, tr) ==
    /\ req' = r
    /\ resp' = [status |-> status, error |-> error, body |-> body]
    /\ trace' = tr
    /\ sent' = Quiet
    /\ client' = Network(client, req', resp', sent')
    /\ UNCHANGED <<family, storesFile, env, loop, workspaces, wsConnections, sock, nextId>>

\* mutant: the broadcasts precede the store write
Commit_BroadcastFirst(r, ws, workspaceId, msgs, body, tr) ==
    /\ req' = r
    /\ workspaces' = saveWorkspaces(ws)
    /\ resp' = [status |-> 200, error |-> "", body |-> body]
    /\ trace' = tr \o [i \in 1..Len(msgs) |-> Bcast(workspaceId, msgs[i])] \o <<Save>>
    /\ sent' = broadcastToWorkspace(workspaceId, msgs)
    /\ client' = Network(client, req', resp', sent')
    /\ UNCHANGED <<family, storesFile, env, loop, wsConnections, sock>>

\* a handler that saves `ws`, broadcasts `msgs` to workspaceId and answers
Commit(r, ws, workspaceId, msgs, body, tr) ==
    /\ req' = r
    /\ workspaces' = saveWorkspaces(ws)
    /\ resp' = [status |-> 200, error |-> "", body |-> body]
    /\ trace' = tr \o <<Save>> \o [i \in 1..Len(msgs) |-> Bcast(workspaceId, msgs[i])]
    /\ sent' = broadcastToWorkspace(workspaceId, msgs)
    /\ client' = Network(client, req', resp', sent')
    /\ UNCHANGED <<family, storesFile, env, loop, wsConnections, sock>>

Reject(r, status, error, tr) == RejectWith(r, status, error, <<>>, tr)

(* ---------------------------------------------------------------------- *)
(* Workspace routes                                                        *)
(* ---------------------------------------------------------------------- *)
\* GET /workspace/:id (public)
GetWorkspace ==
    \E id \in WsIds :
        LET r == PathRequest("GET /workspace/:id", FALSE, NoId, NoToken, id) IN
        IF id \notin DOMAIN loadWorkspaces
        THEN Reject(r, 404, "Workspace not found", <<Load>>)
        ELSE Answer(r, [workspace_id |-> id,
                     active_clients_count |-> Len(loadWorkspaces[id].active_clients)],
                    <<Load>>)

\* mutant: join always starts from a new workspace record
JoinRecord_Fresh(workspaceId) ==
    [workspace_id |-> workspaceId, products |-> <<>>, recipes |-> <<>>,
     active_clients |-> <<>>, prices |-> <<>>, base_basket |-> BASE_BASKET]

\* the workspace record join works on, before the quota check
\* mutant: an existing workspace gets the default template again
JoinRecord_ResetBasket(workspaceId) ==
    IF workspaceId \notin DOMAIN loadWorkspaces
    THEN [workspace_id |-> workspaceId, products |-> <<>>, recipes |-> <<>>,
          active_clients |-> <<>>, prices |-> <<>>, base_basket |-> BASE_BASKET]
    ELSE LET w == loadWorkspaces[workspaceId]
             w1 == ("base_basket" :> BASE_BASKET) @@ w
         IN IF "prices" \notin DOMAIN w1 THEN ("prices" :> <<>>) @@ w1 ELSE w1

JoinRecord(workspaceId) ==
    IF workspaceId \notin DOMAIN loadWorkspaces
    THEN [workspace_id |-> workspaceId, products |-> <<>>, recipes |-> <<>>,
          active_clients |-> <<>>, prices |-> <<>>, base_basket |-> BASE_BASKET]
    ELSE LET w == loadWorkspaces[workspaceId]
             w1 == IF "base_basket" \notin DOMAIN w
                   THEN ("base_basket" :> BASE_BASKET) @@ w ELSE w
         IN IF "prices" \notin DOMAIN w1 THEN ("prices" :> <<>>) @@ w1 ELSE w1

\* mutant: the new token replaces the list instead of being appended
PushClient_Replace(workspace, clientToken) ==
    [workspace EXCEPT !.active_clients = <<clientToken>>]

\* workspace.active_clients.push(clientToken)
PushClient(workspace, clientToken) ==
    [workspace EXCEPT !.active_clients = Append(@, clientToken)]

\* process.env.MAX_CLIENTS_PER_WORKSPACE is not set
NoEnv == -5
\* the '10' of `process.env.MAX_CLIENTS_PER_WORKSPACE || '10'`
DefaultMaxClients == 10

\* parseInt(process.env.MAX_CLIENTS_PER_WORKSPACE || '10', 10)
MaxClients == IF env = NoEnv THEN DefaultMaxClients ELSE env

\* mutant: the quota check lets one client too many in
WorkspaceFull_OffByOne(workspace) == Len(workspace.active_clients) > MaxClients

\* workspace.active_clients.length >= MAX_CLIENTS_PER_WORKSPACE
WorkspaceFull(workspace) == Len(workspace.active_clients) >= MaxClients

\* POST /workspace/:id/join
Join(ids) ==
    \E workspaceId \in ids :
        LET r == PathRequest("POST /workspace/:id/join", FALSE, NoId, NoToken, workspaceId)
            workspace == JoinRecord(workspaceId)
            clientToken == <<workspaceId, Len(workspace.active_clients) + 1>>
        IN
        IF WorkspaceFull(workspace)
        THEN RejectWith(r, 403, "Workspace is full", [can_access |-> FALSE], <<Load>>)
        ELSE /\ Commit(r, Put(loadWorkspaces, workspaceId, PushClient(workspace, clientToken)),
                       workspaceId, <<>>,
                       [client_token |-> clientToken, workspace_id |-> workspaceId,
                        can_access |-> TRUE],
                       <<Load>>)
             /\ UNCHANGED nextId

\* (workspace.products || []).map(p => ({...p, category: normalizeCategory(..)}))
NormalizedProducts(products) ==
    [i \in 1..Len(products) |->
        [products[i] EXCEPT !.category = normalizeCategory(products[i].category)]]

\* GET /workspace/:id/state
GetState ==
    \E w \in WsCreds, t \in TokenCreds, id \in WsIds :
        LET r == PathRequest("GET /workspace/:id/state", TRUE, w, t, id)
            g == requireAccess(w, t)
        IN
        IF g.status # 200 THEN Denied(r, g)
        ELSE Answer(r, [workspace_id |-> w,
                     products |-> JsonProducts(
                                      NormalizedProducts(loadWorkspaces[w].products)),
                     recipes |-> loadWorkspaces[w].recipes],
                    g.loads)

(* ---------------------------------------------------------------------- *)
(* Products                                                                *)
(* ---------------------------------------------------------------------- *)
\* bodies of POST /products
PostProductBodies ==
    { [name |-> "Milk"],
      [name |-> "milk", category |-> "Dairy", in_stock |-> TRUE] }

\* bodies of PATCH /products/:id
PatchProductBodies ==
    { [in_stock |-> TRUE], [category |-> "dairy"] }

\* category values a request or a file of the first server definition holds
CategoryInputs == {"", "dairy", "Dairy", "Snacks", "constructor"}

\* bodies of the catalog family
CatalogPostBodies ==
    { [name |-> "Milk"] } \cup
    { [name |-> "Milk", category |-> c] : c \in {"dairy", "constructor"} }
CatalogPatchBodies == { [category |-> c] : c \in {"", "Dairy"} }

\* bodies of the shelf family: PATCH bodies may carry any field, id included
ShelfPostBodies == { [name |-> "Milk"] }
ShelfPatchBodies == { [id |-> 1], [in_stock |-> TRUE], [category |-> "constructor"] }

\* Array.prototype.findIndex(x => x.id === id); 0 stands for -1
FindIndex(list, id) ==
    IF \E i \in 1..Len(list) : list[i].id = id
    THEN CHOOSE i \in 1..Len(list) :
            /\ list[i].id = id
            /\ \A j \in 1..(i - 1) : list[j].id # id
    ELSE 0

\* list.splice(i, 1)
Splice(list, i) == SubSeq(list, 1, i - 1) \o SubSeq(list, i + 1, Len(list))

\* mutant: the body replaces the product, absent flags fall back to FALSE
ObjectAssign_Replace(target, updates) ==
    updates @@ [target EXCEPT !.in_stock = FALSE, !.wishlist = FALSE]

\* Object.assign(target, updates)
ObjectAssign(target, updates) == updates @@ target

\* mutant: the references of the recipes to the product go with it
RemoveProduct_Cascade(workspace, productIndex) ==
    [workspace EXCEPT
        !.products = Splice(@, productIndex),
        !.recipes = [i \in 1..Len(@) |->
                        [@[i] EXCEPT !.product_ids =
                            SelectSeq(@, LAMBDA x : x # workspace.products[productIndex].id)]]]

\* workspace.products.splice(productIndex, 1)
RemoveProduct(workspace, productIndex) ==
    [workspace EXCEPT !.products = Splice(@, productIndex)]

\* GET /products
GetProducts ==
    \E w \in WsCreds, t \in TokenCreds :
        LET r == Request("GET /products", TRUE, w, t, 0)
            g == requireAccess(w, t)
        IN
        IF g.status # 200 THEN Denied(r, g)
        ELSE Answer(r, JsonProducts(NormalizedProducts(loadWorkspaces[w].products)),
                    g.loads)

\* the product POST /products builds from the request body
NewProduct(id, body) ==
    [id |-> id,
     name |-> Field(body, "name", NullStr),
     category |-> normalizeCategory(Field(body, "category", "")),
     in_stock |-> Field(body, "in_stock", FALSE),
     wishlist |-> Field(body, "wishlist", FALSE),
     quantity |-> IF Truthy(body, "quantity") THEN body.quantity ELSE NullStr,
     unit |-> IF Truthy(body, "unit") THEN body.unit ELSE NullStr]

\* POST /products
PostProducts(bodies) ==
    \E w \in WsCreds, t \in TokenCreds :
        LET r == Request("POST /products", TRUE, w, t, 0)
            g == requireAccess(w, t)
        IN
        IF g.status # 200 THEN Denied(r, g)
        ELSE \E body \in bodies :
             LET loaded == loadWorkspaces
                 product == NewProduct(nextId, body)
                 workspace == [loaded[w] EXCEPT !.products = Append(@, product)]
             IN /\ nextId <= MaxIds
                /\ nextId' = nextId + 1
                /\ Commit(BodyRequest(r, body), Put(loaded, w, workspace), w,
                          <<[type |-> "product_created", data |-> JsonProduct(product)]>>,
                          JsonProduct(product), g.loads \o <<Load>>)

\* the updates PATCH /products/:id assigns
ProductUpdates(body) ==
    IF Truthy(body, "category")
    THEN [body EXCEPT !.category = normalizeCategory(body.category)]
    ELSE body

\* PATCH /products/:id
PatchProducts(bodies) ==
    \E w \in WsCreds, t \in TokenCreds, id \in 1..MaxIds :
        LET r == Request("PATCH /products/:id", TRUE, w, t, id)
            g == requireAccess(w, t)
        IN
        IF g.status # 200 THEN Denied(r, g)
        ELSE \E body \in bodies :
             LET loaded == loadWorkspaces
                 productIndex == FindIndex(loaded[w].products, id)
             IN IF productIndex = 0
                THEN Reject(r, 404, "Product not found", g.loads \o <<Load>>)
                ELSE LET product == ObjectAssign(loaded[w].products[productIndex],
                                                 ProductUpdates(body))
                         workspace == [loaded[w] EXCEPT !.products[productIndex] = product]
                     IN /\ Commit(BodyRequest(r, body), Put(loaded, w, workspace), w,
                                  <<[type |-> "product_updated",
                                     data |-> JsonProduct(product)]>>,
                                  JsonProduct(product), g.loads \o <<Load>>)
                        /\ UNCHANGED nextId

\* DELETE /products/:id
DeleteProducts ==
    \E w \in WsCreds, t \in TokenCreds, id \in 1..MaxIds :
        LET r == Request("DELETE /products/:id", TRUE, w, t, id)
            g == requireAccess(w, t)
        IN
        IF g.status # 200 THEN Denied(r, g)
        ELSE LET loaded == loadWorkspaces
                 productIndex == FindIndex(loaded[w].products, id)
             IN IF productIndex = 0
                THEN Reject(r, 404, "Product not found", g.loads \o <<Load>>)
                ELSE LET workspace == RemoveProduct(loaded[w], productIndex)
                     IN /\ Commit(r, Put(loaded, w, workspace), w,
                                  <<[type |-> "product_deleted", data |-> [id |-> id]]>>,
                                  [success |-> TRUE], g.loads \o <<Load>>)
                        /\ UNCHANGED nextId

(* ---------------------------------------------------------------------- *)
(* Recipes                                                                 *)
(* ---------------------------------------------------------------------- *)
\* bodies of POST /recipes
PostRecipeBodies == { [name |-> "Soup"], [name |-> "Soup", product_ids |-> <<1>>] }

\* bodies of PATCH /recipes/:id
PatchRecipeBodies == { [notes |-> "hot"] }

\* recipe bodies of the cookbook family: references to products of any id
CookbookPostBodies == { [name |-> "Soup", product_ids |-> <<1>>] }
CookbookPatchBodies == { [product_ids |-> <<1, 2>>] }

\* GET /recipes
GetRecipes ==
    \E w \in WsCreds, t \in TokenCreds :
        LET r == Request("GET /recipes", TRUE, w, t, 0)
            g == requireAccess(w, t)
        IN
        IF g.status # 200 THEN Denied(r, g)
        ELSE Answer(r, loadWorkspaces[w].recipes, g.loads)

\* the recipe POST /recipes builds from the request body
NewRecipe(id, body) ==
    [id |-> id,
     name |-> Field(body, "name", NullStr),
     product_ids |-> Field(body, "product_ids", <<>>),
     notes |-> IF Truthy(body, "notes") THEN body.notes ELSE NullStr]

\* POST /recipes
PostRecipes(bodies) ==
    \E w \in WsCreds, t \in TokenCreds :
        LET r == Request("POST /recipes", TRUE, w, t, 0)
            g == requireAccess(w, t)
        IN
        IF g.status # 200 THEN Denied(r, g)
        ELSE \E body \in bodies :
             LET loaded == loadWorkspaces
                 recipe == NewRecipe(nextId, body)
                 workspace == [loaded[w] EXCEPT !.recipes = Append(@, recipe)]
             IN /\ nextId <= MaxIds
                /\ nextId' = nextId + 1
                /\ Commit(BodyRequest(r, body), Put(loaded, w, workspace), w,
                          <<[type |-> "recipe_created", data |-> recipe]>>,
                          recipe, g.loads \o <<Load>>)

\* PATCH /recipes/:id
PatchRecipes(bodies) ==
    \E w \in WsCreds, t \in TokenCreds, id \in 1..MaxIds :
        LET r == Request("PATCH /recipes/:id", TRUE, w, t, id)
            g == requireAccess(w, t)
        IN
        IF g.status # 200 THEN Denied(r, g)
        ELSE \E body \in bodies :
             LET loaded == loadWorkspaces
                 recipeIndex == FindIndex(loaded[w].recipes, id)
             IN IF recipeIndex = 0
                THEN Reject(r, 404, "Recipe not found", g.loads \o <<Load>>)
                ELSE LET recipe == ObjectAssign(loaded[w].recipes[recipeIndex], body)
                         workspace == [loaded[w] EXCEPT !.recipes[recipeIndex] = recipe]
                     IN /\ Commit(BodyRequest(r, body), Put(loaded, w, workspace), w,
                                  <<[type |-> "recipe_updated", data |-> recipe]>>,
                                  recipe, g.loads \o <<Load>>)
                        /\ UNCHANGED nextId

\* DELETE /recipes/:id
DeleteRecipes ==
    \E w \in WsCreds, t \in TokenCreds, id \in 1..MaxIds :
        LET r == Request("DELETE /recipes/:id", TRUE, w, t, id)
            g == requireAccess(w, t)
        IN
        IF g.status # 200 THEN Denied(r, g)
        ELSE LET loaded == loadWorkspaces
                 recipeIndex == FindIndex(loaded[w].recipes, id)
             IN IF recipeIndex = 0
                THEN Reject(r, 404, "Recipe not found", g.loads \o <<Load>>)
                ELSE LET workspace == [loaded[w] EXCEPT !.recipes = Splice(@, recipeIndex)]
                     IN /\ Commit(r, Put(loaded, w, workspace), w,
                                  <<[type |-> "recipe_deleted", data |-> [id |-> id]]>>,
                                  [success |-> TRUE], g.loads \o <<Load>>)
                        /\ UNCHANGED nextId

\* GET /export/json
ExportJson ==
    \E w \in WsCreds, t \in TokenCreds :
        LET r == Request("GET /export/json", TRUE, w, t, 0)
            g == requireAccess(w, t)
        IN
        IF g.status # 200 THEN Denied(r, g)
        ELSE Answer(r, [workspace_id |-> w,
                     products |-> loadWorkspaces[w].products,
                     recipes |-> loadWorkspaces[w].recipes],
                    g.loads)

(* ---------------------------------------------------------------------- *)
(* Base basket                                                             *)
(* ---------------------------------------------------------------------- *)
\* workspace.base_basket || BASE_BASKET
BasketOf(workspace) == Field(workspace, "base_basket", BASE_BASKET)

\* bodies of PUT /workspace/:id/base-basket (the last one carries no array)
PutBasketBodies ==
    { [base_basket |-> <<>>],
      [base_basket |-> <<[name |-> "Tea", category |-> "other", in_stock |-> TRUE]>>],
      [basket |-> "x"] }

\* bodies of the pantry family: a template with the same name twice, a
\* template with a slug, an inherited key and an empty category, a template
\* whose entry has no name, no array
PantryBasketBodies ==
    { [base_basket |-> <<[name |-> "Tea", category |-> "other", in_stock |-> TRUE],
                         [name |-> "tea", category |-> "Dairy", in_stock |-> FALSE]>>],
      [base_basket |-> <<[name |-> "Milk", category |-> "constructor", in_stock |-> FALSE],
                         [name |-> "Tea", category |-> "", in_stock |-> TRUE]>>],
      [base_basket |-> <<[category |-> "other", in_stock |-> FALSE]>>],
      [basket |-> "x"] }

\* bodies of POST /products of the pantry family
PantryPostBodies == { [name |-> "milk"], [category |-> "dairy"] }

\* GET /workspace/:id/base-basket
GetBaseBasket ==
    \E w \in WsCreds, t \in TokenCreds, id \in WsIds :
        LET r == PathRequest("GET /workspace/:id/base-basket", TRUE, w, t, id)
            g == requireAccess(w, t)
        IN
        IF g.status # 200 THEN Denied(r, g)
        ELSE Answer(r, [workspace_id |-> w, base_basket |-> BasketOf(loadWorkspaces[w])],
                    g.loads)

\* req.body.base_basket.map(item => ({name, category: normalizeCategory(..), in_stock: false}))
NormalizedBasket(items) ==
    [i \in 1..Len(items) |->
        [name |-> Field(items[i], "name", NullStr),
         category |-> normalizeCategory(IF Truthy(items[i], "category")
                                        THEN items[i].category ELSE "Prochee"),
         in_stock |-> FALSE]]

\* PUT /workspace/:id/base-basket
PutBaseBasket(bodies) ==
    \E w \in WsCreds, t \in TokenCreds, id \in WsIds :
        LET r == PathRequest("PUT /workspace/:id/base-basket", TRUE, w, t, id)
            g == requireAccess(w, t)
        IN
        IF g.status # 200 THEN Denied(r, g)
        ELSE \E body \in bodies :
             LET loaded == loadWorkspaces IN
             IF "base_basket" \notin DOMAIN body
             THEN Reject(r, 400, "base_basket must be an array",
                         g.loads \o <<Load>>)
             ELSE LET basket == NormalizedBasket(body.base_basket)
                      workspace == ("base_basket" :> basket) @@ loaded[w]
                  IN /\ Commit(r, Put(loaded, w, workspace), w, <<>>,
                               [success |-> TRUE, base_basket |-> JsonProducts(basket)],
                               g.loads \o <<Load>>)
                     /\ UNCHANGED nextId

\* baseBasket.filter(not an existing name).map(new product)
RECURSIVE NewBasketProducts(_, _, _)
NewBasketProducts(baseBasket, existingNames, id) ==
    IF baseBasket = <<>> THEN <<>>
    ELSE LET product == Head(baseBasket) IN
         IF toLowerCase(product.name) \in existingNames
         THEN NewBasketProducts(Tail(baseBasket), existingNames, id)
         ELSE <<[id |-> id, name |-> product.name,
                 category |-> normalizeCategory(product.category),
                 in_stock |-> FALSE, quantity |-> NullStr, unit |-> NullStr]>>
              \o NewBasketProducts(Tail(baseBasket), existingNames, id + 1)

\* p.name.toLowerCase() throws for some entry: its name is absent or null
NamelessIn(list) == \E i \in 1..Len(list) : list[i].name = NullStr

\* POST /workspace/:id/init-basket
InitBasket ==
    \E w \in WsCreds, t \in TokenCreds, id \in WsIds :
        LET r == PathRequest("POST /workspace/:id/init-basket", TRUE, w, t, id)
            g == requireAccess(w, t)
        IN
        IF g.status # 200 THEN Denied(r, g)
        ELSE IF NamelessIn(loadWorkspaces[w].products)
                \/ NamelessIn(BasketOf(loadWorkspaces[w]))
        THEN Reject(r, 500, TypeError, g.loads \o <<Load>>)
        ELSE LET loaded == loadWorkspaces
                 existingProducts == loaded[w].products
                 existingNames == {toLowerCase(existingProducts[i].name) :
                                      i \in 1..Len(existingProducts)}
                 newProducts == NewBasketProducts(BasketOf(loaded[w]), existingNames, nextId)
                 workspace == [loaded[w] EXCEPT !.products = existingProducts \o newProducts]
             IN /\ nextId + Len(newProducts) <= MaxIds + 1
                /\ nextId' = nextId + Len(newProducts)
                /\ Commit(r, Put(loaded, w, workspace), w,
                          [i \in 1..Len(newProducts) |->
                              [type |-> "product_created",
                               data |-> JsonProduct(newProducts[i])]],
                          [success |-> TRUE, added |-> Len(newProducts),
                           total |-> Len(workspace.products),
                           products |-> JsonProducts(newProducts)],
                          g.loads \o <<Load>>)

(* ---------------------------------------------------------------------- *)
(* Prices                                                                  *)
(* ---------------------------------------------------------------------- *)
\* config/stores.json: a file listing two stores, a file listing none, no file
ListedStores ==
    [exists |-> TRUE, stores |-> <<[id |-> "a"], [id |-> "b"]>>, default_store |-> "a"]
ThreeStores ==
    [exists |-> TRUE, stores |-> <<[id |-> "a"], [id |-> "b"], [id |-> "c"]>>,
     default_store |-> "a"]
EmptyStores == [exists |-> TRUE, stores |-> <<>>, default_store |-> NullStr]
AbsentStores == [exists |-> FALSE, stores |-> <<>>, default_store |-> NullStr]

\* storesConfig of POST /prices: the parsed file, or the built-in default
\* whose `stores` is an object without entries, not an array
storesConfig ==
    IF storesFile.exists
    THEN [stores |-> storesFile.stores, isArray |-> TRUE,
          default_store |-> storesFile.default_store]
    ELSE [stores |-> <<>>, isArray |-> FALSE, default_store |-> "yarkie"]

\* product names and store ids a request may carry ("" is an absent value,
\* "zz" is in no registry)
PriceNames == {"Milk", "milk", ""}
StoreInputs == {"a", "b", "zz", ""}
PriceInputs == (1..MaxPrice) \cup {BadPrice, NoPrice}

\* prices of the net family
NetPrices == {1, 2}

\* inputs of the ties family: one product, three stores, prices that tie
TiePrices == {1, BadPrice}
TieStores == {"a", "b", "c"}

\* parseFloat(price)
parseFloat(price) == IF price \in Nat THEN price ELSE NaN

\* storePrice < bestPrice on JS numbers: every comparison with NaN is false
JsLess(a, b) == a # NaN /\ b # NaN /\ a < b

\* the loop that recomputes bestPrice / bestStore over Object.entries(stores)
RECURSIVE BestOf(_, _)
BestOf(stores, best) ==
    IF stores = <<>> THEN best
    ELSE LET storePrice == Head(stores).price IN
         IF storePrice # Null
            /\ (best.best_price = Null \/ JsLess(storePrice, best.best_price))
         THEN BestOf(Tail(stores), [best_price |-> storePrice, best_store |-> Head(stores).id])
         ELSE BestOf(Tail(stores), best)

NoBest == [best_price |-> Null, best_store |-> NullStr]

\* priceData with best_price / best_store recomputed from its stores
WithBest(stores) ==
    [stores |-> stores,
     best_store |-> BestOf(stores, NoBest).best_store,
     best_price |-> BestOf(stores, NoBest).best_price]

\* stores[storeId] = {price, updated_at}: an own key keeps its place in the
\* iteration order, a new key goes last
SetStore(stores, storeId, price) ==
    IF \E i \in 1..Len(stores) : stores[i].id = storeId
    THEN [i \in 1..Len(stores) |->
            IF stores[i].id = storeId THEN [id |-> storeId, price |-> price] ELSE stores[i]]
    ELSE Append(stores, [id |-> storeId, price |-> price])

\* delete stores[storeId]
DeleteStore(stores, storeId) == SelectSeq(stores, LAMBDA e : e.id # storeId)

\* delete obj[key]
DeleteKey(obj, key) == [k \in DOMAIN obj \ {key} |-> obj[k]]

\* workspace.prices || {}
PricesOf(workspace) == Field(workspace, "prices", <<>>)

\* GET /prices
GetPrices ==
    \E w \in WsCreds, t \in TokenCreds :
        LET r == Request("GET /prices", TRUE, w, t, 0)
            g == requireAccess(w, t)
        IN
        IF g.status # 200 THEN Denied(r, g)
        ELSE Answer(r, PricesOf(loadWorkspaces[w]), g.loads)

\* GET /prices/:productName
GetPrice ==
    \E w \in WsCreds, t \in TokenCreds :
        LET g == requireAccess(w, t) IN
        IF g.status # 200 THEN Denied(Request("GET /prices/:productName", TRUE, w, t, 0), g)
        ELSE \E name \in PriceNames \ {""} :
             LET r == PriceRequest("GET /prices/:productName", TRUE, w, t,
                                   [NoArg EXCEPT !.name = name])
                 prices == PricesOf(loadWorkspaces[w])
                 productName == toLowerCase(name)
             IN
             IF productName \notin DOMAIN prices
             THEN Reject(r, 404, "Price not found", g.loads)
             ELSE Answer(r, prices[productName], g.loads)

\* POST /prices
PostPrices(names, priceValues, storeIds) ==
    \E w \in WsCreds, t \in TokenCreds :
        LET g == requireAccess(w, t) IN
        IF g.status # 200 THEN Denied(Request("POST /prices", TRUE, w, t, 0), g)
        ELSE \E product_name \in names, price \in priceValues, store_id \in storeIds :
             LET r == PriceRequest("POST /prices", TRUE, w, t,
                              [name |-> product_name, store_id |-> store_id, price |-> price])
                 loaded == loadWorkspaces
                 productName == toLowerCase(product_name)
                 selectedStoreId == IF store_id # "" THEN store_id
                                    ELSE storesConfig.default_store
                 storeList == storesConfig.stores
             IN
             IF product_name = "" \/ price = NoPrice
             THEN Reject(r, 400, "product_name and price are required",
                         g.loads \o <<Load>>)
             ELSE IF ~storesConfig.isArray
             THEN Reject(r, 500, TypeError, g.loads \o <<Load>>)
             ELSE IF ~ \E i \in 1..Len(storeList) : storeList[i].id = selectedStoreId
             THEN Reject(r, 400, "Invalid store_id", g.loads \o <<Load>>)
             ELSE LET prices == PricesOf(loaded[w])
                      old == IF productName \in DOMAIN prices
                             THEN prices[productName].stores ELSE <<>>
                      priceData == WithBest(SetStore(old, selectedStoreId, parseFloat(price)))
                      workspace == ("prices" :> ((productName :> priceData) @@ prices))
                                      @@ loaded[w]
                  IN /\ Commit(r, Put(loaded, w, workspace), w,
                               <<[type |-> "price_updated",
                                  data |-> [product_name |-> productName,
                                            price_data |-> JsonPriceData(priceData)]]>>,
                               JsonPriceData(priceData), g.loads \o <<Load>>)
                     /\ UNCHANGED nextId

\* the price table DELETE /prices/:productName leaves
PricesAfterDelete(prices, productName, store_id) ==
    IF store_id # ""
    THEN IF \E i \in 1..Len(prices[productName].stores) :
                prices[productName].stores[i].id = store_id
         THEN LET stores == DeleteStore(prices[productName].stores, store_id) IN
              IF Len(stores) = 0
              THEN DeleteKey(prices, productName)
              ELSE (productName :> WithBest(stores)) @@ prices
         ELSE prices
    ELSE DeleteKey(prices, productName)

\* DELETE /prices/:productName
DeletePrices(names, storeIds) ==
    \E w \in WsCreds, t \in TokenCreds :
        LET g == requireAccess(w, t) IN
        IF g.status # 200 THEN Denied(Request("DELETE /prices/:productName", TRUE, w, t, 0), g)
        ELSE \E name \in names \ {""}, store_id \in storeIds :
             LET r == PriceRequest("DELETE /prices/:productName", TRUE, w, t,
                              [NoArg EXCEPT !.name = name, !.store_id = store_id])
                 loaded == loadWorkspaces
                 productName == toLowerCase(name)
             IN
             IF "prices" \notin DOMAIN loaded[w] \/ productName \notin DOMAIN loaded[w].prices
             THEN Reject(r, 404, "Price not found", g.loads \o <<Load>>)
             ELSE LET workspace ==
                        [loaded[w] EXCEPT
                            !.prices = PricesAfterDelete(@, productName, store_id)]
                  IN /\ Commit(r, Put(loaded, w, workspace), w,
                               <<[type |-> "price_deleted",
                                  data |-> [product_name |-> productName,
                                            store_id |-> IF store_id # "" THEN store_id
                                                         ELSE NullStr]]>>,
                               [success |-> TRUE], g.loads \o <<Load>>)
                     /\ UNCHANGED nextId

(* ---------------------------------------------------------------------- *)
(* Frontend: the price table a client keeps (frontend/main.js)             *)
(* ---------------------------------------------------------------------- *)
\* findIndex by id, then replace in place or push
Upsert(list, item) ==
    IF FindIndex(list, item.id) # 0
    THEN [list EXCEPT ![FindIndex(list, item.id)] = item]
    ELSE Append(list, item)

\* handleWebSocketMessage on a product event: the new currentProducts
handleProductMessage(currentProducts, message) ==
    IF message.type \in {"product_created", "product_updated"}
    THEN Upsert(currentProducts, message.data)
    ELSE IF message.type = "product_deleted"
    THEN SelectSeq(currentProducts, LAMBDA p : p.id # message.data.id)
    ELSE currentProducts

\* handleWebSocketMessage on a recipe event: the new currentRecipes
handleRecipeMessage(currentRecipes, message) ==
    IF message.type \in {"recipe_created", "recipe_updated"}
    THEN Upsert(currentRecipes, message.data)
    ELSE IF message.type = "recipe_deleted"
    THEN SelectSeq(currentRecipes, LAMBDA r : r.id # message.data.id)
    ELSE currentRecipes

\* the lists of a client after the messages, applied in order
RECURSIVE ApplyProductMessages(_, _)
ApplyProductMessages(currentProducts, messages) ==
    IF messages = <<>> THEN currentProducts
    ELSE ApplyProductMessages(handleProductMessage(currentProducts, Head(messages)),
                              Tail(messages))

RECURSIVE ApplyRecipeMessages(_, _)
ApplyRecipeMessages(currentRecipes, messages) ==
    IF messages = <<>> THEN currentRecipes
    ELSE ApplyRecipeMessages(handleRecipeMessage(currentRecipes, Head(messages)),
                             Tail(messages))

\* handleWebSocketMessage on a price event: the new currentPrices
handleWebSocketMessage(currentPrices, message) ==
    IF message.type = "price_updated"
    THEN IF Falsy(message.data.product_name) THEN currentPrices
         ELSE (message.data.product_name :> message.data.price_data) @@ currentPrices
    ELSE IF message.type = "price_deleted"
    THEN IF Falsy(message.data.product_name) THEN currentPrices
         ELSE IF ~Falsy(message.data.store_id)
         THEN IF message.data.product_name \in DOMAIN currentPrices
              THEN LET stores == DeleteStore(currentPrices[message.data.product_name].stores,
                                             message.data.store_id)
                   IN IF Len(stores) = 0
                      THEN DeleteKey(currentPrices, message.data.product_name)
                      ELSE (message.data.product_name :> WithBest(stores)) @@ currentPrices
              ELSE currentPrices
         ELSE DeleteKey(currentPrices, message.data.product_name)
    ELSE currentPrices

\* the messages of a sequence applied in order
RECURSIVE ApplyMessages(_, _)
ApplyMessages(currentPrices, messages) ==
    IF messages = <<>> THEN currentPrices
    ELSE ApplyMessages(handleWebSocketMessage(currentPrices, Head(messages)),
                       Tail(messages))

\* deletePrice after its response: the store leaves the local table
deletePriceLocal(currentPrices, productName, storeId) ==
    IF productName \notin DOMAIN currentPrices THEN currentPrices
    ELSE LET stores == DeleteStore(currentPrices[productName].stores, storeId) IN
         IF Len(stores) = 0
         THEN DeleteKey(currentPrices, productName)
         ELSE (productName :> WithBest(stores)) @@ currentPrices

\* loadInitialState after Promise.all: the prices, then the lists
loadInitialState(c, responses) ==
    LET pricesResponse == CHOOSE h \in Range(responses) : h.req.op = PricesFetch
        stateResponse == CHOOSE h \in Range(responses) : h.req.op = StateFetch
        c1 == IF pricesResponse.resp.status = 200
              THEN [c EXCEPT !.currentPrices = pricesResponse.resp.body] ELSE c
    IN IF stateResponse.resp.status = 200
       THEN [c1 EXCEPT !.currentProducts = stateResponse.resp.body.products]
       ELSE c1

\* the continuation of an await fetch(...) of the frontend
onResponse(c, h) ==
    IF h.req.op \in {StateFetch, PricesFetch}
    THEN IF Len(c.fetched) = 1
         THEN [loadInitialState(c, Append(c.fetched, h)) EXCEPT !.fetched = <<>>]
         ELSE [c EXCEPT !.fetched = Append(@, h)]
    ELSE IF h.req.op = "POST /prices"
    THEN IF h.resp.status = 200
         THEN [c EXCEPT !.currentPrices =
                  (toLowerCase(h.req.arg.name) :> h.resp.body) @@ @]
         ELSE c
    ELSE IF h.req.op = "DELETE /prices/:productName"
    THEN IF h.resp.status = 200
         THEN [c EXCEPT !.currentPrices =
                  deletePriceLocal(@, h.req.arg.name, h.req.arg.store_id)]
         ELSE c
    ELSE IF h.req.op = "DELETE /products/:id" /\ h.resp.status = 404
    THEN [c EXCEPT !.currentProducts = SelectSeq(@, LAMBDA p : p.id # h.req.id)]
    ELSE c

\* ws.onmessage
onMessage(c, message) ==
    IF message.type = "state"
    THEN [c EXCEPT !.currentProducts = message.data.products]
    ELSE [c EXCEPT
            !.currentProducts = handleProductMessage(@, message),
            !.currentPrices = handleWebSocketMessage(@, message)]

(* ---------------------------------------------------------------------- *)
(* WebSocket connections                                                   *)
(* ---------------------------------------------------------------------- *)
\* readyState of the ws library; 0 also stands for a connection object that
\* does not exist yet
CONNECTING == 0
OPEN == 1
CLOSING == 2
CLOSED == 3

NoResponse == [status |-> 0, error |-> "", body |-> <<>>]

\* connection objects are created one after the other
NewSocket(s) ==
    /\ sock[s].readyState = CONNECTING
    /\ \A o \in Sockets : o < s => sock[o].readyState # CONNECTING

\* wsConnections.get(workspaceId).add(ws), creating the set when needed
Register(conns, workspaceId, s) ==
    IF workspaceId \in DOMAIN conns
    THEN [conns EXCEPT ![workspaceId] = @ \cup {s}]
    ELSE (workspaceId :> {s}) @@ conns

\* mutant: the listener leaves the emptied set in the map
Unregister_KeepEmpty(conns, workspaceId, s) ==
    IF workspaceId \in DOMAIN conns
    THEN [conns EXCEPT ![workspaceId] = @ \ {s}]
    ELSE conns

\* the 'close' listener of an accepted connection
Unregister(conns, workspaceId, s) ==
    IF workspaceId \in DOMAIN conns
    THEN IF conns[workspaceId] \ {s} = {}
         THEN [k \in DOMAIN conns \ {workspaceId} |-> conns[k]]
         ELSE [conns EXCEPT ![workspaceId] = @ \ {s}]
    ELSE conns

\* ws.close(1008, ...): the connection is refused
Refuse(r, s, tr) ==
    /\ req' = r
    /\ resp' = NoResponse
    /\ trace' = tr
    /\ sent' = Quiet
    /\ sock' = [sock EXCEPT ![s] = [readyState |-> CLOSING, workspaceId |-> NoId,
                                    onclose |-> FALSE]]
    /\ UNCHANGED <<family, storesFile, env, client, loop, workspaces, wsConnections, nextId>>

\* mutant: the upgrade does not look the token up
AccessDenied_NoToken(workspaceId, clientToken) ==
    workspaceId \notin DOMAIN loadWorkspaces

\* !workspace || !workspace.active_clients.includes(clientToken)
AccessDenied(workspaceId, clientToken) ==
    \/ workspaceId \notin DOMAIN loadWorkspaces
    \/ clientToken \notin Range(loadWorkspaces[workspaceId].active_clients)

\* mutant: the snapshot carries no products
StateMessage_NoProducts(workspace) ==
    [type |-> "state", data |-> [products |-> <<>>, recipes |-> workspace.recipes]]

\* the snapshot sent to an accepted connection
StateMessage(workspace) ==
    [type |-> "state",
     data |-> [products |-> JsonProducts(NormalizedProducts(workspace.products)),
               recipes |-> workspace.recipes]]

\* wss.on('connection')
Connection ==
    \E s \in Sockets, workspaceId \in WsCreds, clientToken \in TokenCreds :
        LET r == Request("WS connection", FALSE, workspaceId, clientToken, s) IN
        /\ NewSocket(s)
        /\ IF workspaceId = NoId \/ clientToken = NoToken
           THEN Refuse(r, s, <<>>)
           ELSE IF AccessDenied(workspaceId, clientToken)
           THEN Refuse(r, s, <<Load>>)
           ELSE /\ req' = r
                /\ resp' = NoResponse
                /\ trace' = <<Load>>
                /\ wsConnections' = Register(wsConnections, workspaceId, s)
                /\ sock' = [sock EXCEPT ![s] = [readyState |-> OPEN,
                                                workspaceId |-> workspaceId,
                                                onclose |-> TRUE]]
                /\ sent' = [Quiet EXCEPT ![s] = <<StateMessage(loadWorkspaces[workspaceId])>>]
                /\ client' = Opened(client, req', sent')
                /\ UNCHANGED <<family, storesFile, env, loop, workspaces, nextId>>

\* the closing handshake starts: readyState leaves OPEN before 'close' is emitted
BeginClose ==
    \E s \in Sockets :
        /\ sock[s].readyState = OPEN
        /\ sock' = [sock EXCEPT ![s].readyState = CLOSING]
        /\ req' = Request("WS closing", FALSE, NoId, NoToken, s)
        /\ resp' = NoResponse
        /\ trace' = <<>>
        /\ sent' = Quiet
        /\ UNCHANGED <<family, storesFile, env, client, loop, workspaces, wsConnections, nextId>>

\* the connection is closed and its 'close' event is emitted
OnClose ==
    \E s \in Sockets :
        /\ sock[s].readyState \in {OPEN, CLOSING}
        /\ sock' = [sock EXCEPT ![s] = [readyState |-> CLOSED, workspaceId |-> NoId,
                                        onclose |-> FALSE]]
        /\ wsConnections' = IF sock[s].onclose
                            THEN Unregister(wsConnections, sock[s].workspaceId, s)
                            ELSE wsConnections
        /\ req' = Request("WS close", FALSE, sock[s].workspaceId, NoToken, s)
        /\ resp' = NoResponse
        /\ trace' = <<>>
        /\ sent' = Quiet
        /\ UNCHANGED <<family, storesFile, env, client, loop, workspaces, nextId>>

(* ---------------------------------------------------------------------- *)
(* Frontend: messages and responses arriving                                *)
(* ---------------------------------------------------------------------- *)
\* a step of the frontend: the server handles no request
FrontendStep ==
    /\ req' = Request("frontend", FALSE, NoId, NoToken, 0)
    /\ resp' = NoResponse
    /\ trace' = <<>>
    /\ sent' = Quiet
    /\ UNCHANGED <<family, storesFile, env, loop, workspaces, wsConnections, sock, nextId>>

\* the next message of the connection reaches the frontend
ClientOnMessage ==
    /\ client.ws # <<>>
    /\ client' = [onMessage(client, Head(client.ws)) EXCEPT !.ws = Tail(client.ws)]
    /\ FrontendStep

\* one of the responses on the way reaches the frontend
ClientOnResponse ==
    \E i \in 1..Len(client.http) :
        /\ client' = [onResponse(client, client.http[i]) EXCEPT
                         !.http = SubSeq(client.http, 1, i - 1)
                                     \o SubSeq(client.http, i + 1, Len(client.http))]
        /\ FrontendStep

\* the server takes the next request while little is on the way to the client
CanSend == Len(client.ws) + Len(client.http) < MaxInFlight

(* ---------------------------------------------------------------------- *)
(* The event loop: a handler run step by step                              *)
(* ---------------------------------------------------------------------- *)
\* requests that can be in flight together
Slots == 1..MaxIds

IdleSlot ==
    [pc |-> "idle", op |-> "", token |-> NoToken, loaded |-> <<>>, id |-> 0, status |-> 0]

\* no request in flight, no callback on the stack, nothing saved, nothing
\* written to a connection
IdleLoop ==
    [running |-> 0, commits |-> <<>>, inbox |-> [k \in Sockets |-> <<>>],
     slots |-> [s \in Slots |-> IdleSlot]]

\* ws.send for the event of slot s on every recipient: a connection keeps
\* the order of the sends
Deliver(inbox, s) ==
    [k \in Sockets |-> IF k \in Recipients("w1") THEN Append(inbox[k], s) ELSE inbox[k]]

\* the requests the clients of the loop family send to w1
LoopOps == {"POST /products", "PATCH /products/:id"}
LoopTokens == {<<"w1", 1>>, BogusToken}
LoopPostBody == [name |-> "Milk"]
LoopPatchBody == [in_stock |-> TRUE]

\* mutant: the store is written with a callback (fs.writeFile), so the
\* handler returns to the event loop between its save and its broadcast
Yields_AsyncSave(step) == step \in {"body", "save"}

\* mutant: the store is read with a callback (fs.readFile), so the handler
\* returns to the event loop while the read is under way
Yields_AsyncLoad(step) == step \in {"body", "load"}

\* does the handler return to the event loop at this step? express.json()
\* reads the body from the socket; next(), readFileSync and writeFileSync
\* return to their caller
Yields(step) == step = "body"

\* the callback on the stack after slot s has taken `step`
RunningAfter(s, step) == IF Yields(step) THEN 0 ELSE s

\* a callback of slot s can run: the stack is empty or it is the running one
CanRun(s) == loop.running \in {0, s}

\* the workspace record the handler of a slot saves, from the one it loaded
Mutate(workspace, op, id) ==
    IF op = "POST /products"
    THEN [workspace EXCEPT !.products = Append(@, NewProduct(id, LoopPostBody))]
    ELSE [workspace EXCEPT
            !.products[FindIndex(workspace.products, id)] =
                ObjectAssign(@, ProductUpdates(LoopPatchBody))]

\* a micro-step of the loop family that touches neither file nor response
LoopOnly(newLoop, tr) ==
    /\ loop' = newLoop
    /\ trace' = tr
    /\ sent' = Quiet
    /\ UNCHANGED <<family, storesFile, env, client, workspaces, wsConnections, sock, nextId, req, resp>>

\* a micro-step that ends the request with a response
LoopRespond(s, newLoop, status, error, tr, msgs) ==
    /\ loop' = newLoop
    /\ req' = Request(loop.slots[s].op, TRUE, "w1", loop.slots[s].token, loop.slots[s].id)
    /\ resp' = [status |-> status, error |-> error, body |-> <<>>]
    /\ trace' = tr
    /\ sent' = broadcastToWorkspace("w1", msgs)
    /\ UNCHANGED <<family, storesFile, env, client, workspaces, wsConnections, sock, nextId>>

\* a request arrives and express.json() starts to read its body
Arrive(ops, tokens) ==
    \E s \in Slots, op \in ops, t \in tokens :
        /\ loop.slots[s].pc = "idle"
        /\ \A o \in Slots : o < s => loop.slots[o].pc # "idle"
        /\ LoopOnly([loop EXCEPT !.slots[s] =
                        [IdleSlot EXCEPT !.pc = "parsing", !.op = op, !.token = t,
                                         !.id = IF op = "PATCH /products/:id" THEN 1 ELSE 0]],
                    <<>>)

\* the body is read: requireAccess runs and calls next() or answers
Gate ==
    \E s \in Slots :
        /\ loop.slots[s].pc = "parsing"
        /\ loop.running = 0
        /\ LET g == requireAccess("w1", loop.slots[s].token) IN
           IF g.status # 200
           THEN LoopRespond(s, [loop EXCEPT !.running = 0,
                                            !.slots[s].pc = "done",
                                            !.slots[s].status = g.status],
                            g.status, g.error, g.loads, <<>>)
           ELSE LoopOnly([loop EXCEPT !.running = RunningAfter(s, "next"),
                                      !.slots[s].pc = "handler"],
                         g.loads)

\* const workspaces = loadWorkspaces() of the handler, and its 404
HandlerLoad ==
    \E s \in Slots :
        /\ loop.slots[s].pc = "handler"
        /\ CanRun(s)
        /\ IF /\ loop.slots[s].op = "PATCH /products/:id"
              /\ FindIndex(loadWorkspaces["w1"].products, loop.slots[s].id) = 0
           THEN LoopRespond(s, [loop EXCEPT !.running = 0,
                                            !.slots[s].pc = "done",
                                            !.slots[s].status = 404],
                            404, "Product not found", <<Load>>, <<>>)
           ELSE LoopOnly([loop EXCEPT !.running = RunningAfter(s, "load"),
                                      !.slots[s].pc = "loaded",
                                      !.slots[s].loaded = loadWorkspaces],
                         <<Load>>)

\* the mutation on the loaded object and saveWorkspaces(workspaces)
HandlerSave ==
    \E s \in Slots :
        LET slot == loop.slots[s]
            id == IF slot.op = "POST /products" THEN nextId ELSE slot.id
        IN
        /\ slot.pc = "loaded"
        /\ CanRun(s)
        /\ nextId <= MaxIds
        /\ nextId' = IF slot.op = "POST /products" THEN nextId + 1 ELSE nextId
        /\ workspaces' = saveWorkspaces(Put(slot.loaded, "w1",
                                            Mutate(slot.loaded["w1"], slot.op, id)))
        /\ loop' = [loop EXCEPT !.running = RunningAfter(s, "save"),
                                !.commits = Append(@, s),
                                !.slots[s].pc = "saved",
                                !.slots[s].id = id]
        /\ trace' = <<Save>>
        /\ sent' = Quiet
        /\ UNCHANGED <<family, storesFile, env, client, wsConnections, sock, req, resp>>

\* broadcastToWorkspace and res.json: the callback returns
HandlerRespond ==
    \E s \in Slots :
        /\ loop.slots[s].pc = "saved"
        /\ CanRun(s)
        /\ LoopRespond(s, [loop EXCEPT !.running = 0,
                                       !.inbox = Deliver(@, s),
                                       !.slots[s].pc = "done",
                                       !.slots[s].status = 200],
                       200, "", <<>>,
                       <<[type |-> IF loop.slots[s].op = "POST /products"
                                   THEN "product_created" ELSE "product_updated",
                          data |-> [id |-> loop.slots[s].id]]>>)

(* ---------------------------------------------------------------------- *)
(* Specifications                                                          *)
(* ---------------------------------------------------------------------- *)
Families == {"access", "products", "recipes", "basket", "prices", "hub"}

\* the store after one successful join on each workspace id of ids
Joined(ids) ==
    [id \in ids |->
        [workspace_id |-> id, products |-> <<>>, recipes |-> <<>>,
         active_clients |-> << <<id, 1>> >>, prices |-> <<>>, base_basket |-> BASE_BASKET]]

\* the store of the hub family: both workspaces joined, one product each
HubStore ==
    [id \in WsIds |->
        [Joined(WsIds)[id] EXCEPT
            !.products = <<NewProduct(IF id = "w1" THEN 1 ELSE 2, [name |-> "Milk"])>>]]

\* the stores a run of a family starts from: the join family starts with no
\* file or with a file of the first server definition, the others after joins
\* a product as the first server definition wrote it: category kept as sent
LegacyProduct(id, category) ==
    [id |-> id, name |-> "Milk", category |-> category, in_stock |-> FALSE,
     quantity |-> NullStr, unit |-> NullStr]

\* the store of the catalog family: w1 holds one such product
CatalogStore(category) ==
    [Joined(WsIds) EXCEPT !["w1"].products = <<LegacyProduct(1, category)>>]

\* the store after a join and a POST /prices for milk
PricedStore ==
    [Joined(WsIds) EXCEPT
        !["w1"].prices = "milk" :> WithBest(SetStore(<<>>, "a", 1))]

\* the store after two joins of w1
NetStore ==
    [Joined(WsIds) EXCEPT !["w1"].active_clients = << <<"w1", 1>>, <<"w1", 2>> >>]

InitialStores(f) ==
    CASE f \in {"access", "quota"} -> {<<>>, LegacyStore}
      [] f = "catalog" ->
            {Joined(WsIds)} \cup {CatalogStore(c) : c \in CategoryInputs \ {""}}
      [] f = "hub" -> {HubStore}
      [] f = "prices" -> {Joined(WsIds), LegacyStore}
      [] f = "rejoin" -> {PricedStore, LegacyStore}
      [] f = "net" -> {NetStore}
      [] OTHER -> {Joined(WsIds)}

\* the registry files a run of a family finds
StoresFiles(f) ==
    CASE f = "prices" -> {ListedStores, EmptyStores, AbsentStores}
      [] f = "ties" -> {ThreeStores}
      [] OTHER -> {ListedStores}

\* the environment of the server process: the quota family runs without the
\* variable, the others with it set to the configured maximum
EnvValues(f) == IF f = "quota" THEN {NoEnv} ELSE {MAX_CLIENTS_PER_WORKSPACE}

\* the uuids the products of a store have used up
UsedIds(store) ==
    UNION {{store[w].products[i].id : i \in 1..Len(store[w].products)} : w \in DOMAIN store}

\* the server starts on one of the stores of family f
Start(f) ==
    /\ family = f
    /\ storesFile \in StoresFiles(f)
    /\ env \in EnvValues(f)
    /\ loop = IdleLoop
    /\ client = IdleClient
    /\ workspaces \in InitialStores(f)
    /\ wsConnections = <<>>
    /\ sock = [s \in Sockets |->
                 [readyState |-> CONNECTING, workspaceId |-> NoId, onclose |-> FALSE]]
    /\ nextId = Cardinality(UsedIds(workspaces)) + 1
    /\ req = Request("start", FALSE, NoId, NoToken, 0)
    /\ resp = NoResponse
    /\ trace = <<>>
    /\ sent = Quiet

Init == \E f \in Families : Start(f)

NextAccess ==
    \/ Join(WsIds)
    \/ GetWorkspace
    \/ GetState
    \/ GetProducts
    \/ GetRecipes
    \/ ExportJson
    \/ GetPrices

NextProducts ==
    \/ PostProducts(PostProductBodies)
    \/ PatchProducts(PatchProductBodies)
    \/ DeleteProducts

NextRecipes ==
    \/ PostRecipes(PostRecipeBodies)
    \/ PatchRecipes(PatchRecipeBodies)
    \/ DeleteRecipes

NextBasket ==
    \/ GetBaseBasket
    \/ PutBaseBasket(PutBasketBodies)
    \/ InitBasket

NextPrices ==
    \/ GetPrice
    \/ PostPrices(PriceNames, PriceInputs, StoreInputs)
    \/ DeletePrices(PriceNames, StoreInputs)

NextCatalog ==
    \/ PostProducts(CatalogPostBodies)
    \/ PatchProducts(CatalogPatchBodies)
    \/ DeleteProducts
    \/ GetProducts
    \/ GetState
    \/ ExportJson
    \/ InitBasket

NextPantry ==
    \/ PostProducts(PantryPostBodies)
    \/ GetBaseBasket
    \/ PutBaseBasket(PantryBasketBodies)
    \/ InitBasket

NextQuota ==
    \/ Join(WsIds)
    \/ GetWorkspace

NextLoop ==
    \/ Arrive(LoopOps, LoopTokens)
    \/ Gate
    \/ HandlerLoad
    \/ HandlerSave
    \/ HandlerRespond

NextOrder ==
    \/ Arrive({"POST /products"}, {<<"w1", 1>>})
    \/ Gate
    \/ HandlerLoad
    \/ HandlerSave
    \/ HandlerRespond
    \/ Connection
    \/ BeginClose
    \/ OnClose

NextRejoin ==
    \/ Join(WsIds)
    \/ PostProducts(ShelfPostBodies)
    \/ PutBaseBasket(PutBasketBodies)

NextCookbook ==
    \/ PostProducts(ShelfPostBodies)
    \/ DeleteProducts
    \/ PostRecipes(CookbookPostBodies)
    \/ PatchRecipes(CookbookPatchBodies)

NextTies ==
    \/ PostPrices({"milk"}, TiePrices, TieStores)
    \/ DeletePrices({"milk"}, TieStores)

\* the followed client connects, loads, sets and deletes prices and deletes
\* products; the other client of the workspace adds products and sets prices
NextNet ==
    \/ Connection /\ req'.id = ClientSocket /\ req'.token = ClientToken
    \/ CanSend /\ GetState /\ req'.token = ClientToken
    \/ CanSend /\ GetPrices /\ req'.token = ClientToken
    \/ CanSend /\ PostProducts(ShelfPostBodies) /\ req'.token # ClientToken
    \/ CanSend /\ DeleteProducts /\ req'.token = ClientToken
    \/ CanSend /\ PostPrices({"milk"}, NetPrices, {"a"})
    \/ CanSend /\ DeletePrices({"milk"}, {"a"}) /\ req'.token = ClientToken
    \/ ClientOnMessage
    \/ ClientOnResponse

NextShelf ==
    \/ PostProducts(ShelfPostBodies)
    \/ PatchProducts(ShelfPatchBodies)
    \/ DeleteProducts
    \/ GetProducts
    \/ GetState
    \/ ExportJson

NextHub ==
    \/ PatchProducts({[in_stock |-> TRUE]})
    \/ Connection
    \/ BeginClose
    \/ OnClose

Next ==
    \/ family = "access" /\ Join(WsIds)
    \/ family = "access" /\ GetWorkspace
    \/ family = "access" /\ GetState
    \/ family = "access" /\ GetProducts
    \/ family = "access" /\ GetRecipes
    \/ family = "access" /\ ExportJson
    \/ family = "access" /\ GetPrices
    \/ family = "products" /\ PostProducts(PostProductBodies)
    \/ family = "products" /\ PatchProducts(PatchProductBodies)
    \/ family = "products" /\ DeleteProducts
    \/ family = "recipes" /\ PostRecipes(PostRecipeBodies)
    \/ family = "recipes" /\ PatchRecipes(PatchRecipeBodies)
    \/ family = "recipes" /\ DeleteRecipes
    \/ family = "basket" /\ GetBaseBasket
    \/ family = "basket" /\ PutBaseBasket(PutBasketBodies)
    \/ family = "basket" /\ InitBasket
    \/ family = "prices" /\ GetPrice
    \/ family = "prices" /\ PostPrices(PriceNames, PriceInputs, StoreInputs)
    \/ family = "prices" /\ DeletePrices(PriceNames, StoreInputs)
    \/ family = "hub" /\ PatchProducts({[in_stock |-> TRUE]})
    \/ family = "hub" /\ Connection
    \/ family = "hub" /\ BeginClose
    \/ family = "hub" /\ OnClose

\* every route family
Spec == Init /\ [][Next]_vars

\* joins and reads
InitAccess == Init /\ family = "access"
SpecAccess == InitAccess /\ [][NextAccess]_vars

\* the price table
InitPrices == Init /\ family = "prices"
SpecPrices == InitPrices /\ [][NextPrices]_vars

\* products of any category, and the reads that return them
InitCatalog == Start("catalog")
SpecCatalog == InitCatalog /\ [][NextCatalog]_vars

\* templates and the products seeded from them
InitPantry == Start("pantry")
SpecPantry == InitPantry /\ [][NextPantry]_vars

\* joins of workspaces that already hold products, a template and prices
InitRejoin == Start("rejoin")
SpecRejoin == InitRejoin /\ [][NextRejoin]_vars

\* recipes that refer to products, and products deleted under them
InitCookbook == Start("cookbook")
SpecCookbook == InitCookbook /\ [][NextCookbook]_vars

\* one product priced in three stores
InitTies == Start("ties")
SpecTies == InitTies /\ [][NextTies]_vars

\* a frontend, the server, and the messages and responses between them
InitNet == Start("net")
SpecNet == InitNet /\ [][NextNet]_vars

\* products created, patched, deleted and read back
InitShelf == Start("shelf")
SpecShelf == InitShelf /\ [][NextShelf]_vars

\* joins of a server started without MAX_CLIENTS_PER_WORKSPACE
InitQuota == Start("quota")
SpecQuota == InitQuota /\ [][NextQuota]_vars

\* requests in flight together on one server process
InitLoop == Start("loop")
SpecLoop == InitLoop /\ [][NextLoop]_vars

\* requests in flight together, with connections that receive the events
InitOrder == Start("order")
SpecOrder == InitOrder /\ [][NextOrder]_vars

\* the connection registry and broadcasts
InitHub == Init /\ family = "hub"
SpecHub == InitHub /\ [][NextHub]_vars

(* ---------------------------------------------------------------------- *)
(* Vocabulary of the properties                                            *)
(* ---------------------------------------------------------------------- *)
JoinOp == "POST /workspace/:id/join"

\* the active-client tokens a store holds for workspace w
Clients(store, w) == IF w \in DOMAIN store THEN Range(store[w].active_clients) ELSE {}
ClientCount(store, w) == IF w \in DOMAIN store THEN Len(store[w].active_clients) ELSE 0

\* the error bodies only the gate produces
GateErrors == {"Missing workspace_id or client_token", "Workspace not found", "Access denied"}

\* the broadcast calls of the last step, in order
Broadcasts(tr) == SelectSeq(tr, LAMBDA e : e.ev = "broadcast")
BroadcastMsgs(tr) == [i \in 1..Len(Broadcasts(tr)) |-> Broadcasts(tr)[i].msg]

(* ---------------------------------------------------------------------- *)
(* C1: join quota                                                          *)
(* ---------------------------------------------------------------------- *)
QuotaRespected == \A w \in DOMAIN workspaces : Len(workspaces[w].active_clients) <= MAX_CLIENTS_PER_WORKSPACE

FullJoinStep ==
    (req'.op = JoinOp /\ ClientCount(workspaces, req'.path) >= MAX_CLIENTS_PER_WORKSPACE)
        => /\ resp'.status = 403
           /\ resp'.body = [can_access |-> FALSE]
           /\ workspaces' = workspaces

\* C1: no workspace ever stores more than MAX_CLIENTS_PER_WORKSPACE client
\* tokens, and a join on a workspace that already holds that many is answered
\* 403 with can_access false, returns no token and leaves the store unchanged.
C1_JoinQuota == []QuotaRespected /\ [][FullJoinStep]_vars

\* a join was refused on a workspace holding exactly the maximum
C1_Witness ==
    /\ req.op = JoinOp
    /\ resp.status = 403
    /\ ClientCount(workspaces, req.path) = MAX_CLIENTS_PER_WORKSPACE

(* ---------------------------------------------------------------------- *)
(* C2: tokens are distinct and stay valid                                  *)
(* ---------------------------------------------------------------------- *)
JoinBelowQuotaStep ==
    (req'.op = JoinOp /\ ClientCount(workspaces, req'.path) < MAX_CLIENTS_PER_WORKSPACE)
        => /\ resp'.status = 200
           /\ resp'.body.workspace_id = req'.path
           /\ resp'.body.client_token \notin Clients(workspaces, req'.path)
           /\ resp'.body.client_token \in Clients(workspaces', req'.path)

TokensKeptStep ==
    \A w \in DOMAIN workspaces : Clients(workspaces, w) \subseteq Clients(workspaces', w)

ValidTokenPassesStep ==
    (req'.auth /\ req'.token \in Clients(workspaces, req'.ws))
        => resp'.error \notin GateErrors

GateStep ==
    req'.auth =>
        LET missing == req'.ws = NoId \/ req'.token = NoToken
            unknown == ~missing /\ req'.ws \notin DOMAIN workspaces
            denied == ~missing /\ ~unknown /\ req'.token \notin Clients(workspaces, req'.ws)
            failed == missing \/ unknown \/ denied
        IN /\ missing => resp'.status = 401
           /\ unknown => resp'.status = 404
           /\ denied => resp'.status = 403
           /\ failed => /\ resp'.error \in GateErrors
                        /\ workspaces' = workspaces
                        /\ Broadcasts(trace') = <<>>
                        /\ sent' = Quiet
           /\ ~failed => resp'.error \notin GateErrors

JoinOnlyAppends(W) ==
    /\ W \in DOMAIN workspaces'
    /\ resp'.status = 200
    /\ LET new == workspaces'[W] IN
       IF W \in DOMAIN workspaces
       THEN LET old == workspaces[W] IN
            /\ new.products = old.products
            /\ new.recipes = old.recipes
            /\ new.active_clients = Append(old.active_clients, resp'.body.client_token)
            /\ new.prices = Field(old, "prices", <<>>)
            /\ new.base_basket = Field(old, "base_basket", BASE_BASKET)
       ELSE /\ new.products = <<>>
            /\ new.recipes = <<>>
            /\ new.active_clients = <<resp'.body.client_token>>
            /\ new.prices = <<>>
            /\ new.base_basket = BASE_BASKET

\* the record of W, or nothing
RecordOf(store, W) == IF W \in DOMAIN store THEN <<store[W]>> ELSE <<>>

WriteStep ==
    \A W \in WsIds :
        RecordOf(workspaces', W) # RecordOf(workspaces, W)
            => \/ req'.op = JoinOp /\ req'.path = W /\ JoinOnlyAppends(W)
               \/ req'.auth /\ req'.ws = W /\ req'.token \in Clients(workspaces, W)

ReadStep ==
    /\ (req'.auth /\ resp'.status = 200) => req'.token \in Clients(workspaces, req'.ws)
    /\ (req'.op = "WS connection" /\ sent'[req'.id] # <<>>)
          => /\ req'.token \in Clients(workspaces, req'.ws)
             /\ sent'[req'.id][1].data.recipes = workspaces[req'.ws].recipes
    /\ (resp'.status = 200 /\ req'.op \in {"GET /workspace/:id/state", "GET /export/json"})
          => /\ resp'.body.workspace_id = req'.ws
             /\ resp'.body.recipes = workspaces[req'.ws].recipes
             /\ Len(resp'.body.products) = Len(workspaces[req'.ws].products)
    /\ (resp'.status = 200 /\ req'.op = "GET /recipes")
          => resp'.body = workspaces[req'.ws].recipes
    /\ (resp'.status = 200 /\ req'.op = "GET /prices")
          => resp'.body = Field(workspaces[req'.ws], "prices", <<>>)
    /\ (resp'.status = 200 /\ req'.op = "GET /workspace/:id/base-basket")
          => resp'.body.base_basket = Field(workspaces[req'.ws], "base_basket", BASE_BASKET)
    /\ (resp'.status = 200 /\ req'.op = "GET /workspace/:id")
          => DOMAIN resp'.body = {"workspace_id", "active_clients_count"}

\* C4: a step changes the record of a workspace W only when it is a join on W
\* (which appends one token and fills in a missing price table and base
\* basket, nothing else) or an authenticated request whose workspace id is W
\* and whose token is in W's active-client set; so a mutation on W leaves the
\* other records as they are. Data of W is returned only to a request or
\* connection presenting W with one of its tokens.
C4_Isolation == [][WriteStep /\ ReadStep]_vars

\* a product was created in w1 while w2 exists and keeps its own record
C4_Witness ==
    /\ req.op = "POST /products"
    /\ resp.status = 200
    /\ req.ws = "w1"
    /\ "w2" \in DOMAIN workspaces
    /\ workspaces["w2"].products = <<>>
    /\ workspaces["w1"].products # <<>>

(* ---------------------------------------------------------------------- *)
(* C5, C6: the price table                                                 *)
(* ---------------------------------------------------------------------- *)
\* the numbers among the prices of a store map (a persisted null is none)
NumericPrices(stores) == {stores[i].price : i \in 1..Len(stores)} \cap Nat

\* the minimum of the prices of a store map, null if it holds no number
MinimumPrice(stores) ==
    IF NumericPrices(stores) = {} THEN Null
    ELSE CHOOSE m \in NumericPrices(stores) : \A x \in NumericPrices(stores) : m <= x

PriceRecordOk(rec) ==
    /\ rec.stores # <<>>
    /\ rec.best_price = MinimumPrice(rec.stores)
    /\ \E i \in 1..Len(rec.stores) :
          rec.stores[i].id = rec.best_store /\ rec.stores[i].price = rec.best_price

\* C5: in every persisted state every record of a workspace's price table has
\* a non-empty store map, a best_price equal to the minimum of the prices of
\* that map, and a best_store naming a store of the map with that price.
C5_BestPriceInvariant ==
    \A w \in DOMAIN workspaces :
        \A name \in DOMAIN PricesOf(workspaces[w]) :
            PriceRecordOk(PricesOf(workspaces[w])[name])

\* best_price / best_store are the minimum over the entries of the record
BestIsMinimum(rec) ==
    /\ rec.best_price = MinimumPrice(rec.stores)
    /\ rec.best_price # Null =>
          \E i \in 1..Len(rec.stores) :
              rec.stores[i].id = rec.best_store /\ rec.stores[i].price = rec.best_price

DeletePriceStep ==
    (req'.op = "DELETE /prices/:productName" /\ resp'.status = 200) =>
        LET before == workspaces[req'.ws].prices
            after == workspaces'[req'.ws].prices
            name == toLowerCase(req'.arg.name)
            remaining == SelectSeq(before[name].stores,
                                   LAMBDA e : e.id # req'.arg.store_id)
        IN /\ \A n \in DOMAIN before \ {name} : n \in DOMAIN after /\ after[n] = before[n]
           /\ IF req'.arg.store_id = "" \/ remaining = <<>>
              THEN name \notin DOMAIN after
              ELSE /\ name \in DOMAIN after
                   /\ after[name].stores = remaining
                   /\ BestIsMinimum(after[name])

GetDeletedPriceStep ==
    (/\ req'.op = "GET /prices/:productName"
     /\ req'.ws \in DOMAIN workspaces
     /\ req'.token \in Clients(workspaces, req'.ws)
     /\ toLowerCase(req'.arg.name) \notin DOMAIN PricesOf(workspaces[req'.ws]))
        => resp'.status = 404

\* C6: delete_price with a store_id removes only that store's entry of the
\* product and leaves best_price / best_store equal to the minimum over the
\* remaining entries; when the last entry goes, the record goes and
\* GET /prices/{name} answers 404; without store_id the whole record goes.
C6_DeletePrice == [][DeletePriceStep /\ GetDeletedPriceStep]_vars

(* ---------------------------------------------------------------------- *)
(* C7, C8: broadcasts                                                      *)
(* ---------------------------------------------------------------------- *)
\* the event each mutation of a product, a recipe or a price emits
EventType ==
    [op \in {"POST /products", "PATCH /products/:id", "DELETE /products/:id",
             "POST /recipes", "PATCH /recipes/:id", "DELETE /recipes/:id",
             "POST /prices", "DELETE /prices/:productName"} |->
        CASE op = "POST /products" -> "product_created"
          [] op = "PATCH /products/:id" -> "product_updated"
          [] op = "DELETE /products/:id" -> "product_deleted"
          [] op = "POST /recipes" -> "recipe_created"
          [] op = "PATCH /recipes/:id" -> "recipe_updated"
          [] op = "DELETE /recipes/:id" -> "recipe_deleted"
          [] op = "POST /prices" -> "price_updated"
          [] op = "DELETE /prices/:productName" -> "price_deleted"]

MutationOps == DOMAIN EventType

ReadOps ==
    {"GET /workspace/:id", "GET /workspace/:id/state", "GET /products", "GET /recipes",
     "GET /export/json", "GET /workspace/:id/base-basket", "GET /prices",
     "GET /prices/:productName"}

RegisteredUnder(w, s) == w \in DOMAIN wsConnections /\ s \in wsConnections[w]

\* C7: after a successful mutation on workspace W every open socket
\* registered under W has received the event of that mutation, the same
\* message for all of them, and a socket registered under another workspace
\* id has received nothing.
C7_BroadcastFanout ==
    (req.op \in MutationOps /\ resp.status = 200) =>
        \A s \in Sockets :
            /\ (RegisteredUnder(req.ws, s) /\ sock[s].readyState = OPEN)
                  => /\ sent[s] # <<>>
                     /\ sent[s] = BroadcastMsgs(trace)
                     /\ \A i \in 1..Len(sent[s]) : sent[s][i].type = EventType[req.op]
                     /\ \A o \in Sockets :
                           (RegisteredUnder(req.ws, o) /\ sock[o].readyState = OPEN)
                               => sent[o] = sent[s]
            /\ (\E w \in DOMAIN wsConnections : w # req.ws /\ s \in wsConnections[w])
                  => sent[s] = <<>>

\* two open sockets of one workspace received the same product_updated
C7_Witness ==
    /\ req.op = "PATCH /products/:id"
    /\ resp.status = 200
    /\ RegisteredUnder(req.ws, 1) /\ sock[1].readyState = OPEN
    /\ RegisteredUnder(req.ws, 2) /\ sock[2].readyState = OPEN
    /\ sent[1] = sent[2]
    /\ Len(sent[1]) = 1
    /\ sent[1][1].type = "product_updated"

\* C8: a successful create, update or delete of a product, a recipe or a
\* price makes exactly one broadcast call, to the workspace of the request,
\* and after the store write of that request; a request that fails and a
\* read-only request make none.
C8_OneBroadcastAfterWrite ==
    /\ (req.op \in MutationOps /\ resp.status = 200)
          => /\ Len(Broadcasts(trace)) = 1
             /\ Broadcasts(trace)[1].ws = req.ws
             /\ Broadcasts(trace)[1].msg.type = EventType[req.op]
             /\ \E i, j \in 1..Len(trace) :
                   /\ i < j
                   /\ trace[i] = Save
                   /\ trace[j].ev = "broadcast"
             /\ Len(SelectSeq(trace, LAMBDA e : e = Save)) = 1
    /\ (resp.status \in {400, 401, 403, 404} \/ req.op \in ReadOps)
          => Broadcasts(trace) = <<>>

\* a recipe was deleted: one save, then one recipe_deleted broadcast
C8_Witness ==
    /\ req.op = "DELETE /recipes/:id"
    /\ resp.status = 200
    /\ Len(Broadcasts(trace)) = 1
    /\ trace[Len(trace)].ev = "broadcast"
    /\ trace[Len(trace) - 1] = Save

(* ---------------------------------------------------------------------- *)
(* C9, C10: the connection registry                                        *)
(* ---------------------------------------------------------------------- *)
\* C9: each connection is in the set of at most one workspace id, no
\* workspace id maps to an empty set, and a connection whose close event has
\* been handled is in no set.
C9_RegistryInvariant ==
    /\ \A s \in Sockets :
          Cardinality({w \in DOMAIN wsConnections : s \in wsConnections[w]}) <= 1
    /\ \A w \in DOMAIN wsConnections : wsConnections[w] # {}
    /\ \A s \in Sockets :
          sock[s].readyState = CLOSED
              => \A w \in DOMAIN wsConnections : s \notin wsConnections[w]

\* the close listener of a connection of w removed it; another one remains
C9_Witness ==
    /\ req.op = "WS close"
    /\ req.ws \in WsIds
    /\ sock[req.id].readyState = CLOSED
    /\ req.ws \in DOMAIN wsConnections
    /\ req.id \notin wsConnections[req.ws]

\* the upgrade of req' proved membership against the store
UpgradeProved ==
    /\ req'.ws # NoId
    /\ req'.token # NoToken
    /\ req'.ws \in DOMAIN workspaces
    /\ req'.token \in Clients(workspaces, req'.ws)

RegisterStep ==
    \A s \in Sockets :
        /\ \A w \in DOMAIN wsConnections' :
              (s \in wsConnections'[w] /\ ~RegisteredUnder(w, s))
                  => /\ req'.op = "WS connection"
                     /\ req'.id = s
                     /\ req'.ws = w
                     /\ UpgradeProved
        /\ (req'.op = "WS connection" /\ req'.id = s /\ ~UpgradeProved)
              => /\ sock'[s].readyState \in {CLOSING, CLOSED}
                 /\ \A w \in DOMAIN wsConnections' : s \notin wsConnections'[w]
                 /\ sent'[s] = <<>>

\* a refused connection stays out of the registry, and only a registered
\* open connection is written to
RefusedStaysOut ==
    \A s \in Sockets :
        /\ (sock[s].readyState = CLOSING /\ ~sock[s].onclose)
              => \A w \in DOMAIN wsConnections : s \notin wsConnections[w]
        /\ sent[s] # <<>>
              => \E w \in DOMAIN wsConnections :
                    s \in wsConnections[w] /\ sock[s].readyState = OPEN

\* C10: a connection enters the registry only in its own upgrade, under the
\* workspace id it supplied, having supplied both parameters, the workspace
\* existing and the token being in its active-client set at that time; a
\* connection failing any of these is closed, is never registered and is
\* never sent a state or event message.
C10_RegisterOnlyIfMember == [][RegisterStep]_vars /\ []RefusedStaysOut

\* an upgrade on an existing workspace with a token of the other workspace
\* was refused while another connection is registered
C10_Witness ==
    /\ req.op = "WS connection"
    /\ req.ws \in DOMAIN workspaces
    /\ req.token \notin Clients(workspaces, req.ws)
    /\ \E w \in DOMAIN workspaces : req.token \in Clients(workspaces, w)
    /\ sock[req.id].readyState = CLOSING
    /\ wsConnections # <<>>

(* ---------------------------------------------------------------------- *)
(* C11: the state snapshot                                                 *)
(* ---------------------------------------------------------------------- *)
\* msg carries the persisted products (category aside) and recipes of w
SnapshotOf(msg, w) ==
    /\ msg.type = "state"
    /\ msg.data.recipes = workspaces[w].recipes
    /\ Len(msg.data.products) = Len(workspaces[w].products)
    /\ \A i \in 1..Len(msg.data.products) :
          /\ msg.data.products[i].id = workspaces[w].products[i].id
          /\ msg.data.products[i].name = workspaces[w].products[i].name
          /\ msg.data.products[i].in_stock = workspaces[w].products[i].in_stock

SnapshotStep ==
    \A s \in Sockets :
        /\ (sock[s].readyState = CONNECTING /\ sock'[s].readyState = OPEN)
              => /\ Len(sent'[s]) = 1
                 /\ SnapshotOf(sent'[s][1], req'.ws)
                 /\ workspaces' = workspaces
                 /\ \A o \in Sockets \ {s} : sent'[o] = <<>>
        /\ (\E i \in 1..Len(sent'[s]) : sent'[s][i].type = "state")
              => sock[s].readyState = CONNECTING

\* C11: the step that accepts a connection writes one state message to it and
\* to no other connection, with the products and recipes of its workspace as
\* persisted then; no later step writes a state message to it, and no earlier
\* step wrote anything to it.
C11_StateSnapshot ==
    /\ [][SnapshotStep]_vars
    /\ [](\A s \in Sockets : sock[s].readyState = CONNECTING => sent[s] = <<>>)

\* a connection got its snapshot, with a product in it, while the other
\* connection is open and got nothing
C11_Witness ==
    /\ req.op = "WS connection"
    /\ sock[req.id].readyState = OPEN
    /\ Len(sent[req.id]) = 1
    /\ sent[req.id][1].type = "state"
    /\ sent[req.id][1].data.products # <<>>
    /\ \E o \in Sockets \ {req.id} : sock[o].readyState = OPEN /\ sent[o] = <<>>

(* ---------------------------------------------------------------------- *)
(* C12: categories on read                                                 *)
(* ---------------------------------------------------------------------- *)
KnownSlugs == DOMAIN CATEGORY_MAPPING

\* a list of returned products against the stored list it was read from:
\* no slug is returned, and a stored slug is returned as its label
ReturnedNormalized(returned, stored) ==
    /\ Len(returned) = Len(stored)
    /\ \A i \in 1..Len(returned) :
          /\ returned[i].id = stored[i].id
          /\ returned[i].category \notin KnownSlugs
          /\ toLowerCase(stored[i].category) \in KnownSlugs
                => returned[i].category = CATEGORY_MAPPING[toLowerCase(stored[i].category)]

\* C12: whatever creates and patches came before, GET /products,
\* GET /workspace/{id}/state and the state snapshot of a connection return no
\* product whose category is a known slug; a product created with a known
\* slug is stored, and so returned, with the display label of that slug.
C12_NoSlugOnRead ==
    /\ (req.op = "GET /products" /\ resp.status = 200)
          => ReturnedNormalized(resp.body, workspaces[req.ws].products)
    /\ (req.op = "GET /workspace/:id/state" /\ resp.status = 200)
          => ReturnedNormalized(resp.body.products, workspaces[req.ws].products)
    /\ \A w \in DOMAIN workspaces :
          ReturnedNormalized(StateMessage(workspaces[w]).data.products,
                             workspaces[w].products)
    /\ (req.op = "POST /products" /\ resp.status = 200
          /\ toLowerCase(req.category) \in KnownSlugs)
          => /\ resp.body.category = CATEGORY_MAPPING[toLowerCase(req.category)]
             /\ \E i \in 1..Len(workspaces[req.ws].products) :
                   /\ workspaces[req.ws].products[i].id = resp.body.id
                   /\ workspaces[req.ws].products[i].category = resp.body.category

\* GET /products returned two products, one stored with the slug 'dairy' by
\* the first server definition and returned with its label
C12_Witness ==
    /\ req.op = "GET /products"
    /\ resp.status = 200
    /\ Len(resp.body) = 2
    /\ \E i \in 1..2 :
          /\ workspaces[req.ws].products[i].category = "dairy"
          /\ resp.body[i].category = "Molochnye"

(* ---------------------------------------------------------------------- *)
(* C13, C14: the category normalizer                                       *)
(* ---------------------------------------------------------------------- *)
\* what the normalizer is to return for an input
NormalizerContract(input, output) ==
    IF Falsy(input) THEN output = "Prochee"
    ELSE IF toLowerCase(input) \in KnownSlugs
         THEN output = CATEGORY_MAPPING[toLowerCase(input)]
         ELSE output = input

\* C13: the normalizer maps each known slug to its display label, returns
\* every other input unchanged and returns the label of 'other' for an empty
\* or absent input; seen where the routes apply it: on the category of a
\* POST /products body and on every stored category GET /products returns.
C13_NormalizerContract ==
    /\ (req.op = "POST /products" /\ resp.status = 200)
          => NormalizerContract(req.category, resp.body.category)
    /\ (req.op = "GET /products" /\ resp.status = 200)
          => \A i \in 1..Len(resp.body) :
                NormalizerContract(workspaces[req.ws].products[i].category,
                                   resp.body[i].category)

\* normalizing twice gives what normalizing once gives
Idempotent(c) == normalizeCategory(normalizeCategory(c)) = normalizeCategory(c)

\* the stored product with this id holds a fixed point of the normalizer
StoredFixedPoint(w, id) ==
    \E i \in 1..Len(workspaces[w].products) :
        /\ workspaces[w].products[i].id = id
        /\ normalizeCategory(workspaces[w].products[i].category)
              = workspaces[w].products[i].category

\* C14: the normalizer is idempotent (on every category a request carried or
\* the store holds), and the category stored for a product created by
\* POST /products or by init-basket is a fixed point of the normalizer.
C14_NormalizerFixedPoint ==
    /\ Idempotent(req.category)
    /\ \A w \in DOMAIN workspaces : \A i \in 1..Len(workspaces[w].products) :
          Idempotent(workspaces[w].products[i].category)
    /\ (req.op = "POST /products" /\ resp.status = 200)
          => StoredFixedPoint(req.ws, resp.body.id)
    /\ (req.op = "POST /workspace/:id/init-basket" /\ resp.status = 200)
          => \A i \in 1..Len(resp.body.products) :
                StoredFixedPoint(req.ws, resp.body.products[i].id)

(* ---------------------------------------------------------------------- *)
(* C15, C16: seeding the products from the template                        *)
(* ---------------------------------------------------------------------- *)
InitBasketOp == "POST /workspace/:id/init-basket"

\* the request was let through by the access gate
GatePassed(r) == r.status \notin {401, 403, 404}

\* the template a workspace record stands for
TemplateOf(w) == Field(workspaces[w], "base_basket", BASE_BASKET)

\* C15: a second init-basket directly after a first one on the same workspace
\* adds zero products, broadcasts nothing and leaves the product list as it
\* was; the first call on a workspace without products adds one product per
\* entry of the template.
InitBasketTwice ==
    /\ (/\ req.op = InitBasketOp /\ resp.status = 200
        /\ req'.op = InitBasketOp /\ GatePassed(resp')
        /\ req'.ws = req.ws)
          => /\ resp'.status = 200
             /\ resp'.body.added = 0
             /\ Broadcasts(trace') = <<>>
             /\ workspaces'[req'.ws].products = workspaces[req'.ws].products
    /\ (/\ req'.op = InitBasketOp /\ GatePassed(resp')
        /\ workspaces[req'.ws].products = <<>>)
          => /\ resp'.status = 200
             /\ resp'.body.added = Len(TemplateOf(req'.ws))
             /\ Len(workspaces'[req'.ws].products) = Len(TemplateOf(req'.ws))

C15_InitBasketIdempotent == [][InitBasketTwice]_vars

\* the entries of a template whose name no product of `existing` bears,
\* letter case aside
Missing(template, existing) ==
    SelectSeq(template, LAMBDA e :
        \A i \in 1..Len(existing) : toLowerCase(e.name) # toLowerCase(existing[i].name))

\* C16: init-basket appends, in template order, one new product with
\* in_stock = false per template entry whose name no product existing before
\* the call bears (letter case aside), leaves the existing products unchanged
\* and in place, and broadcasts one product_created per added product, in
\* that order, after the store write.
InitBasketStep ==
    (req'.op = InitBasketOp /\ GatePassed(resp'))
       => LET old == workspaces[req'.ws].products
              new == workspaces'[req'.ws].products
              missing == Missing(TemplateOf(req'.ws), old)
              casts == Broadcasts(trace')
          IN /\ resp'.status = 200
             /\ Len(new) = Len(old) + Len(missing)
             /\ \A i \in 1..Len(old) : new[i] = old[i]
             /\ \A j \in 1..Len(missing) :
                   /\ new[Len(old) + j].name = missing[j].name
                   /\ new[Len(old) + j].in_stock = FALSE
                   /\ \A i \in 1..Len(old) : new[Len(old) + j].id # old[i].id
             /\ Len(casts) = Len(missing)
             /\ \A j \in 1..Len(casts) :
                   /\ casts[j].ws = req'.ws
                   /\ casts[j].msg.type = "product_created"
                   /\ casts[j].msg.data.id = new[Len(old) + j].id
             /\ \E k \in 1..Len(trace') :
                   /\ trace'[k] = Save
                   /\ \A i \in 1..Len(trace') : trace'[i].ev = "broadcast" => k < i

C16_InitBasketAppends == [][InitBasketStep]_vars

(* ---------------------------------------------------------------------- *)
(* C17: replacing the template                                             *)
(* ---------------------------------------------------------------------- *)
PutBasketOp == "PUT /workspace/:id/base-basket"

\* a category the normalizer has nothing left to do on: present, not empty
\* and not a known slug in any letter case
IsNormalized(category) ==
    /\ ~Falsy(category)
    /\ category \notin {FunctionObject, TypeError}
    /\ toLowerCase(category) \notin KnownSlugs

\* C17: after a successful PUT of the base basket every entry of the stored
\* template has in_stock = false and a normalized category; GET base-basket
\* returns exactly the stored list; a PUT without an array is answered 400
\* and leaves the stored template unchanged.
PutBasketStep ==
    /\ (req'.op = PutBasketOp /\ resp'.status = 200)
          => /\ "base_basket" \in DOMAIN workspaces'[req'.ws]
             /\ \A i \in 1..Len(workspaces'[req'.ws].base_basket) :
                   /\ workspaces'[req'.ws].base_basket[i].in_stock = FALSE
                   /\ IsNormalized(workspaces'[req'.ws].base_basket[i].category)
    /\ (req'.op = "GET /workspace/:id/base-basket" /\ resp'.status = 200)
          => resp'.body.base_basket = TemplateOf(req'.ws)
    /\ (req'.op = PutBasketOp /\ resp'.status \notin {200, 401, 403, 404})
          => /\ resp'.status = 400
             /\ workspaces' = workspaces

C17_TemplateNormalized == [][PutBasketStep]_vars

(* ---------------------------------------------------------------------- *)
(* C18: a store the registry does not list                                 *)
(* ---------------------------------------------------------------------- *)
\* the store ids config/stores.json lists (none when there is no file)
RegistryIds ==
    IF storesFile.exists
    THEN {storesFile.stores[i].id : i \in 1..Len(storesFile.stores)}
    ELSE {}

\* C18: a set_price that passed the gate and names a store the registry does
\* not list is answered 400, leaves the price tables as they were and
\* broadcasts nothing, whatever the registry holds: stores, no store, or no
\* registry file at all.
UnknownStoreStep ==
    (/\ req'.op = "POST /prices"
     /\ resp'.status \notin {401, 403, 404}
     /\ req'.arg.store_id # ""
     /\ req'.arg.store_id \notin RegistryIds)
       => /\ resp'.status = 400
          /\ workspaces' = workspaces
          /\ Broadcasts(trace') = <<>>

C18_UnknownStoreRejected == [][UnknownStoreStep]_vars

(* ---------------------------------------------------------------------- *)
(* C19: price records are keyed by the lowercased name                     *)
(* ---------------------------------------------------------------------- *)
\* the strings of the model that contain an uppercase letter
Capitalized == {"Milk", "Dairy", "Molochnye", "Prochee", "Snacks", "Tea"}

\* two names that differ at most in letter case
SameIgnoringCase(a, b) == a = b \/ {a, b} = {"Milk", "milk"}

PriceNotFound(r) == r.status = 404 /\ r.error = "Price not found"

\* every key but k is in both tables with the same record
OthersKept(old, new, k) ==
    \A j \in (DOMAIN old \cup DOMAIN new) \ {k} :
        j \in DOMAIN old /\ j \in DOMAIN new /\ new[j] = old[j]

PriceKeyStep ==
    LET n == req'.arg.name
        old == Field(workspaces[req'.ws], "prices", <<>>)
        new == Field(workspaces'[req'.ws], "prices", <<>>)
    IN
    /\ (req'.op = "POST /prices" /\ resp'.status = 200)
          => \E k \in DOMAIN new :
                /\ SameIgnoringCase(k, n)
                /\ k \notin Capitalized
                /\ resp'.body = new[k]
                /\ OthersKept(old, new, k)
    /\ (req'.op = "GET /prices/:productName" /\ resp'.status = 200)
          => \E k \in DOMAIN old : SameIgnoringCase(k, n) /\ resp'.body = old[k]
    /\ (req'.op = "GET /prices/:productName" /\ PriceNotFound(resp'))
          => \A k \in DOMAIN old : ~SameIgnoringCase(k, n)
    /\ (req'.op = "DELETE /prices/:productName" /\ resp'.status = 200)
          => \E k \in DOMAIN old :
                /\ SameIgnoringCase(k, n)
                /\ OthersKept(old, new, k)
                /\ req'.arg.store_id = "" => k \notin DOMAIN new
    /\ (req'.op = "DELETE /prices/:productName" /\ PriceNotFound(resp'))
          => \A k \in DOMAIN old : ~SameIgnoringCase(k, n)

NoCapitalizedKey ==
    \A w \in DOMAIN workspaces :
        \A k \in DOMAIN Field(workspaces[w], "prices", <<>>) : k \notin Capitalized

DeleteProductOp == "DELETE /products/:id"

\* the ids of the products of a list
IdsOf(products) == {products[i].id : i \in 1..Len(products)}

\* DELETE /products/id on workspace w has just succeeded
Deleted(w, id) ==
    /\ req.op = DeleteProductOp
    /\ resp.status = 200
    /\ req.ws = w
    /\ req.id = id

\* a read of workspace w shows a product with this id: the answer of the
\* last request, or the snapshot a connection to w would get now
ReadShows(w, id) ==
    \/ /\ req.ws = w
       /\ resp.status = 200
       /\ \/ req.op = "GET /products" /\ id \in IdsOf(resp.body)
          \/ /\ req.op \in {"GET /workspace/:id/state", "GET /export/json"}
             /\ id \in IdsOf(resp.body.products)
    \/ id \in IdsOf(StateMessage(workspaces[w]).data.products)

\* a DELETE for an id no product of the workspace has
DeleteUnknownStep ==
    /\ (/\ req'.op = DeleteProductOp
        /\ resp'.status \notin {401, 403}
        /\ req'.ws \in DOMAIN workspaces
        /\ req'.id \notin IdsOf(workspaces[req'.ws].products))
          => /\ resp'.status = 404
             /\ workspaces' = workspaces
             /\ Broadcasts(trace') = <<>>
    /\ (/\ Deleted(req'.ws, req'.id)
        /\ req'.op = DeleteProductOp
        /\ resp'.status \notin {401, 403})
          => resp'.status = 404

\* C20: after a successful DELETE /products/{id} no later read of the
\* workspace (export/json, GET /products, state, connection snapshot) shows a
\* product with that id; a DELETE for an id no product of the workspace has
\* is answered 404, changes nothing in the store and broadcasts nothing, so
\* repeating a delete gives 404.
C20_DeletedStaysAbsent ==
    /\ [][DeleteUnknownStep]_vars
    /\ \A w \in WsIds : \A id \in 1..MaxIds :
          [](Deleted(w, id) => [](~ReadShows(w, id)))

(* ---------------------------------------------------------------------- *)
(* C21: seats are never given back                                         *)
(* ---------------------------------------------------------------------- *)
\* every workspace keeps the tokens it has, in place; new ones go behind
SeatsKeptStep ==
    \A w \in DOMAIN workspaces :
        /\ w \in DOMAIN workspaces'
        /\ Len(workspaces'[w].active_clients) >= Len(workspaces[w].active_clients)
        /\ SubSeq(workspaces'[w].active_clients, 1, Len(workspaces[w].active_clients))
              = workspaces[w].active_clients

\* a workspace holding the maximum still holds it after the step, and a join
\* on it is refused
FullStaysFullStep ==
    \A w \in DOMAIN workspaces :
        Len(workspaces[w].active_clients) >= MAX_CLIENTS_PER_WORKSPACE
           => /\ Len(workspaces'[w].active_clients) >= MAX_CLIENTS_PER_WORKSPACE
              /\ (req'.op = "POST /workspace/:id/join" /\ req'.path = w)
                    => resp'.status = 403

\* every stored token passes the access gate of its workspace
IssuedTokensValid ==
    \A w \in DOMAIN workspaces : \A i \in 1..Len(workspaces[w].active_clients) :
        requireAccess(w, workspaces[w].active_clients[i]).status = 200

\* C21: no operation removes a token from a workspace's active-client set: a
\* token once issued stays valid after any joins, mutations and socket
\* closes, and a workspace that has reached the maximum refuses every later
\* join.
C21_TokensNeverRemoved ==
    /\ [][SeatsKeptStep /\ FullStaysFullStep]_vars
    /\ []IssuedTokensValid

\* w1 is full and refuses a join while w2 has taken clients, and the tokens
\* of w1 are all still in place
C21_Witness ==
    /\ req.op = "POST /workspace/:id/join"
    /\ req.path = "w1"
    /\ resp.status = 403
    /\ "w2" \in DOMAIN workspaces
    /\ Len(workspaces["w2"].active_clients) >= 1
    /\ Len(workspaces["w1"].active_clients) = MAX_CLIENTS_PER_WORKSPACE
    /\ IssuedTokensValid

(* ---------------------------------------------------------------------- *)
(* C22: two clients per workspace                                          *)
(* ---------------------------------------------------------------------- *)
\* C22: a workspace has at most 2 active clients: once two joins on a
\* workspace id have succeeded, every further join on it is rejected.
C22_AtMostTwoClients ==
    /\ [](\A w \in DOMAIN workspaces : Len(workspaces[w].active_clients) <= 2)
    /\ [][(/\ req'.op = "POST /workspace/:id/join"
           /\ req'.path \in DOMAIN workspaces
           /\ Len(workspaces[req'.path].active_clients) >= 2)
             => resp'.status = 403]_vars

(* ---------------------------------------------------------------------- *)
(* C23: the price table of a client follows the server's                   *)
(* ---------------------------------------------------------------------- *)
\* the events of a handler run that go to workspace w
EventsTo(tr, w) ==
    LET casts == SelectSeq(tr, LAMBDA e : e.ev = "broadcast" /\ e.ws = w)
    IN [i \in 1..Len(casts) |-> casts[i].msg]

\* a client table equal to the stored one before the step, with the events
\* of the step applied in order, equals the stored one after the step
ReplicaStep ==
    \A w \in DOMAIN workspaces :
        ApplyMessages(Field(workspaces[w], "prices", <<>>), EventsTo(trace', w))
            = Field(workspaces'[w], "prices", <<>>)

\* C23: a client whose price table equals the server's and that applies
\* every price_updated and price_deleted event in broadcast order holds,
\* after each event, the server's stored price table of the workspace,
\* best_price and best_store included.
C23_ClientPricesFollow == [][ReplicaStep]_vars

(* ---------------------------------------------------------------------- *)
(* C24: handlers do not interleave                                         *)
(* ---------------------------------------------------------------------- *)
\* slot s is between the first load of its callback and its save or answer
MidHandler(s) == loop.slots[s].pc \in {"handler", "loaded"}

\* the step is a load or a save of slot s
LoadOrSaveBy(s) ==
    /\ loop'.slots[s].pc # loop.slots[s].pc
    /\ loop.slots[s].pc \in {"parsing", "handler", "loaded"}

\* no load or save of one request falls between the load and the save of
\* another
NoInterleavingStep ==
    \A a, b \in Slots : (a # b /\ LoadOrSaveBy(b)) => ~MidHandler(a)

\* the store after the saved requests were applied one at a time, in the
\* order of their saves, to the store the server started on
RECURSIVE Replay(_)
Replay(commits) ==
    IF commits = <<>> THEN Joined(WsIds)
    ELSE LET before == Replay(SubSeq(commits, 1, Len(commits) - 1))
             slot == loop.slots[commits[Len(commits)]]
         IN saveWorkspaces(Put(before, "w1", Mutate(before["w1"], slot.op, slot.id)))

\* a product whose creation was answered 200 is in the store
NoLostCreate ==
    \A s \in Slots :
        (loop.slots[s].op = "POST /products" /\ loop.slots[s].status = 200)
           => \E i \in 1..Len(workspaces["w1"].products) :
                 workspaces["w1"].products[i].id = loop.slots[s].id

\* C24: under every interleaving of requests in flight together, the load,
\* mutation and save of a handler run with no load or save of another
\* handler in between, so the store equals the result of applying the saved
\* requests one at a time in commit order, and no accepted mutation is lost.
C24_HandlersAtomic ==
    /\ [][NoInterleavingStep]_vars
    /\ [](family = "loop" => (workspaces = Replay(loop.commits) /\ NoLostCreate))

\* two requests were in flight together, the one that arrived second was
\* saved first, and both were answered 200
C24_Witness ==
    /\ family = "loop"
    /\ loop.commits = <<2, 1>>
    /\ \A s \in {1, 2} : loop.slots[s].pc = "done" /\ loop.slots[s].status = 200
    /\ Len(workspaces["w1"].products) = 2

(* ---------------------------------------------------------------------- *)
(* C25: events arrive in commit order                                      *)
(* ---------------------------------------------------------------------- *)
\* the place of slot s in a sequence of slots that holds it
PlaceIn(seq, s) == CHOOSE i \in 1..Len(seq) : seq[i] = s

\* what connection k received is in the order of the saves
InCommitOrder(k) ==
    \A i, j \in 1..Len(loop.inbox[k]) :
        i < j => PlaceIn(loop.commits, loop.inbox[k][i])
                    < PlaceIn(loop.commits, loop.inbox[k][j])

\* C25: for any two mutations of a workspace, every connection that receives
\* both events receives them in the order in which the two mutations were
\* written to the store.
C25_EventsInCommitOrder == \A k \in Sockets : InCommitOrder(k)

\* a connection received the events of two requests, the request that
\* arrived second having been saved and broadcast first
C25_Witness ==
    /\ loop.commits = <<2, 1>>
    /\ \E k \in Sockets : loop.inbox[k] = <<2, 1>>

(* ---------------------------------------------------------------------- *)
(* C26: connections that are not open are skipped                          *)
(* ---------------------------------------------------------------------- *)
\* the step is a PATCH that passed the gate and names a stored product
PatchOfStored ==
    /\ req'.op = "PATCH /products/:id"
    /\ resp'.status \notin {401, 403, 404}
    /\ \E i \in 1..Len(workspaces[req'.ws].products) :
          workspaces[req'.ws].products[i].id = req'.id

SkipNotOpenStep ==
    /\ PatchOfStored
          => /\ resp'.status = 200
             /\ \A s \in Sockets :
                   RegisteredUnder(req'.ws, s)
                      => IF sock[s].readyState = OPEN
                         THEN sent'[s] = BroadcastMsgs(trace') /\ sent'[s] # <<>>
                         ELSE sent'[s] = <<>>
    /\ \A s \in Sockets : \A i \in 1..Len(sent'[s]) :
          \/ sent'[s][i].type = "state"
          \/ \E j \in 1..Len(BroadcastMsgs(trace')) : sent'[s][i] = BroadcastMsgs(trace')[j]

\* C26: a broadcast writes nothing to a registered connection that is not
\* open, still writes the event to every open connection of the workspace
\* and still lets the request succeed; a connection is only ever written the
\* events of the request being handled, so a skipped event never reaches it
\* later.
C26_NotOpenSkipped == [][SkipNotOpenStep]_vars

\* a PATCH succeeded while one connection of the workspace was closing and
\* another one was open: the first got nothing, the second the event
C26_Witness ==
    /\ req.op = "PATCH /products/:id"
    /\ resp.status = 200
    /\ \E s, o \in Sockets :
          /\ RegisteredUnder(req.ws, s) /\ sock[s].readyState = CLOSING /\ sent[s] = <<>>
          /\ RegisteredUnder(req.ws, o) /\ sock[o].readyState = OPEN /\ sent[o] # <<>>

(* ---------------------------------------------------------------------- *)
(* C27: product ids                                                        *)
(* ---------------------------------------------------------------------- *)
\* no two products of a workspace have the same id
UniqueIds ==
    \A w \in DOMAIN workspaces :
        \A i, j \in 1..Len(workspaces[w].products) :
            workspaces[w].products[i].id = workspaces[w].products[j].id => i = j

\* outside a delete every stored product stays in its place with its id
IdKeptStep ==
    req'.op # DeleteProductOp
       => \A w \in DOMAIN workspaces :
             \A i \in 1..Len(workspaces[w].products) :
                /\ w \in DOMAIN workspaces'
                /\ i <= Len(workspaces'[w].products)
                /\ workspaces'[w].products[i].id = workspaces[w].products[i].id

\* C27: after any sequence of product creates, patches and deletes no two
\* products of a workspace have the same id, and the id of a product never
\* changes after its creation.
C27_IdsUniqueAndFixed == [][IdKeptStep]_vars /\ []UniqueIds

(* ---------------------------------------------------------------------- *)
(* C28: product names                                                      *)
(* ---------------------------------------------------------------------- *)
\* every stored product has a name
AllNamed == \A w \in DOMAIN workspaces : ~NamelessIn(workspaces[w].products)

\* init_basket never fails on the comparison of names
InitBasketDefinedStep ==
    (req'.op = InitBasketOp /\ GatePassed(resp')) => resp'.error # TypeError

\* C28: every stored product has a string name: no sequence of POST
\* /products, PUT base-basket and init_basket calls leaves a stored product
\* without one, so the comparison of names in init_basket is always defined.
C28_ProductsNamed == [][InitBasketDefinedStep]_vars /\ []AllNamed

(* ---------------------------------------------------------------------- *)
(* C29: what a PATCH of a product changes                                  *)
(* ---------------------------------------------------------------------- *)
PatchProductOp == "PATCH /products/:id"

\* the product at place i of workspace w keeps every field the body lacks
BodyFieldsOnly(w, i, body) ==
    LET old == workspaces[w].products[i]
        new == workspaces'[w].products[i]
    IN /\ DOMAIN new \subseteq DOMAIN old \cup DOMAIN body
       /\ \A k \in DOMAIN old \ DOMAIN body : k \in DOMAIN new /\ new[k] = old[k]

PatchFrameStep ==
    (req'.op = PatchProductOp /\ resp'.status = 200)
       => LET w == req'.ws
              i == FindIndex(workspaces[w].products, req'.id)
          IN /\ i # 0
             /\ DOMAIN workspaces' = DOMAIN workspaces
             /\ \A v \in DOMAIN workspaces \ {w} : workspaces'[v] = workspaces[v]
             /\ \A k \in DOMAIN workspaces[w] \ {"products"} :
                   workspaces'[w][k] = workspaces[w][k]
             /\ Len(workspaces'[w].products) = Len(workspaces[w].products)
             /\ \A j \in 1..Len(workspaces[w].products) :
                   j # i => workspaces'[w].products[j] = workspaces[w].products[j]
             /\ BodyFieldsOnly(w, i, req'.body)
             /\ resp'.body = workspaces'[w].products[i]
             /\ BroadcastMsgs(trace')
                   = <<[type |-> "product_updated", data |-> workspaces'[w].products[i]]>>

\* C29: a successful PATCH /products/{id} changes only fields present in the
\* request body, on that one product; every other field of it, every other
\* product, the order of the list, the recipes, prices, base basket and
\* tokens are unchanged; the response and the product_updated event both
\* carry the whole product as stored.
C29_PatchFrame == [][PatchFrameStep]_vars

\* a product that was in stock got another field patched, among two products
C29_Witness ==
    /\ req.op = PatchProductOp
    /\ resp.status = 200
    /\ "in_stock" \notin DOMAIN req.body
    /\ Len(workspaces[req.ws].products) = 2
    /\ resp.body.in_stock = TRUE

(* ---------------------------------------------------------------------- *)
(* C30: what a join of an existing workspace changes                       *)
(* ---------------------------------------------------------------------- *)
\* field k of the record: kept when present, else the given default
KeptOrDefault(old, new, k, default) ==
    /\ k \in DOMAIN new
    /\ new[k] = IF k \in DOMAIN old THEN old[k] ELSE default

JoinFrameStep ==
    (/\ req'.op = JoinOp
     /\ resp'.status = 200
     /\ req'.path \in DOMAIN workspaces)
       => LET w == req'.path
              old == workspaces[w]
              new == workspaces'[w]
          IN /\ DOMAIN workspaces' = DOMAIN workspaces
             /\ \A v \in DOMAIN workspaces \ {w} : workspaces'[v] = workspaces[v]
             /\ DOMAIN new = DOMAIN old \cup {"base_basket", "prices"}
             /\ new.active_clients = Append(old.active_clients, resp'.body.client_token)
             /\ \A k \in DOMAIN old \ {"active_clients"} : new[k] = old[k]
             /\ KeptOrDefault(old, new, "base_basket", BASE_BASKET)
             /\ KeptOrDefault(old, new, "prices", <<>>)

\* C30: a successful join of an existing workspace only appends the new
\* token, and adds the default base_basket and an empty price table when they
\* are missing; products, recipes, the tokens issued before and a base_basket
\* or price table already present are unchanged.
C30_JoinFrame == [][JoinFrameStep]_vars

\* a second client joined a workspace that holds a product, a template of
\* its own and a price
C30_Witness ==
    /\ req.op = JoinOp
    /\ resp.status = 200
    /\ req.path \in DOMAIN workspaces
    /\ Len(workspaces[req.path].active_clients) = 2
    /\ workspaces[req.path].products # <<>>
    /\ workspaces[req.path].base_basket # BASE_BASKET
    /\ DOMAIN workspaces[req.path].prices # {}

(* ---------------------------------------------------------------------- *)
(* C31: where workspace records come from                                  *)
(* ---------------------------------------------------------------------- *)
\* the workspace ids a request names, in its path and in its credentials
NamedIn(r) == {r.ws, r.path} \ {NoId}

\* a record appears only in a successful join, empty but for the new token
CreatedByJoinStep ==
    \A w \in DOMAIN workspaces' \ DOMAIN workspaces :
        /\ req'.op = JoinOp
        /\ resp'.status = 200
        /\ req'.path = w
        /\ workspaces'[w].products = <<>>
        /\ workspaces'[w].recipes = <<>>
        /\ workspaces'[w].active_clients = <<resp'.body.client_token>>

\* no record is removed
RecordsKeptStep == DOMAIN workspaces \subseteq DOMAIN workspaces'

\* a request other than a join that names an id without a record
UnknownNamedStep ==
    (/\ req'.op # JoinOp
     /\ \E w \in NamedIn(req') : w \notin DOMAIN workspaces)
       => /\ resp'.status \in {401, 404}
          /\ workspaces' = workspaces

\* C31: a workspace record is created only by a successful join, with empty
\* product and recipe lists and exactly the one new token, and is never
\* removed afterwards; every other request naming an unknown workspace id is
\* answered 401 or 404 and creates nothing.
C31_RecordsFromJoinOnly ==
    [][CreatedByJoinStep /\ RecordsKeptStep /\ UnknownNamedStep]_vars

(* ---------------------------------------------------------------------- *)
(* C32: recipes refer to products by id only                               *)
(* ---------------------------------------------------------------------- *)
\* a recipe of the list refers to this product id
RefersTo(recipes, id) ==
    \E i \in 1..Len(recipes) : \E j \in 1..Len(recipes[i].product_ids) :
        recipes[i].product_ids[j] = id

\* deleting a product leaves the recipes of every workspace as they are
DeleteKeepsRecipesStep ==
    (req'.op = DeleteProductOp /\ resp'.status = 200)
       => \A w \in DOMAIN workspaces : workspaces'[w].recipes = workspaces[w].recipes

\* a recipe is created or patched with the product ids of its body,
\* whatever products the workspace has
AnyIdsAcceptedStep ==
    /\ (req'.op = "POST /recipes" /\ GatePassed(resp'))
          => /\ resp'.status = 200
             /\ Len(workspaces'[req'.ws].recipes) = Len(workspaces[req'.ws].recipes) + 1
             /\ workspaces'[req'.ws].recipes[Len(workspaces'[req'.ws].recipes)].product_ids
                   = Field(req'.body, "product_ids", <<>>)
    /\ (/\ req'.op = "PATCH /recipes/:id"
        /\ resp'.status \notin {401, 403}
        /\ req'.ws \in DOMAIN workspaces
        /\ FindIndex(workspaces[req'.ws].recipes, req'.id) # 0)
          => /\ resp'.status = 200
             /\ "product_ids" \in DOMAIN req'.body
                   => workspaces'[req'.ws].recipes[
                          FindIndex(workspaces[req'.ws].recipes, req'.id)].product_ids
                        = req'.body.product_ids

\* C32: deleting a product leaves every recipe unchanged, also the recipes
\* whose product_ids contain the deleted id, and creating or patching a
\* recipe accepts product ids that no product of the workspace has.
C32_RecipesKeepReferences == [][DeleteKeepsRecipesStep /\ AnyIdsAcceptedStep]_vars

\* a product was deleted while a recipe of its workspace refers to it
C32_Witness ==
    /\ req.op = DeleteProductOp
    /\ resp.status = 200
    /\ RefersTo(workspaces[req.ws].recipes, req.id)
    /\ req.id \notin IdsOf(workspaces[req.ws].products)

(* ---------------------------------------------------------------------- *)
(* C33: ties between stores                                                *)
(* ---------------------------------------------------------------------- *)
\* the store ids of a product in a store file, in the order of the map
StoreOrder(ws, w, n) ==
    IF n \in DOMAIN PricesOf(ws[w])
    THEN [i \in 1..Len(ws[w].prices[n].stores) |-> ws[w].prices[n].stores[i].id]
    ELSE <<>>

\* place i holds the lowest of the numeric prices of the list
HoldsMinimum(stores, i) ==
    /\ stores[i].price # Null
    /\ \A j \in 1..Len(stores) :
          stores[j].price # Null => stores[i].price <= stores[j].price

\* when several stores hold the minimum, best_store is the first of them
TieFirst ==
    \A w \in DOMAIN workspaces : \A n \in DOMAIN PricesOf(workspaces[w]) :
        LET pd == workspaces[w].prices[n]
            holders == {i \in 1..Len(pd.stores) : HoldsMinimum(pd.stores, i)}
        IN Cardinality(holders) >= 2
              => \E i \in holders :
                    /\ \A j \in holders : i <= j
                    /\ pd.best_store = pd.stores[i].id

\* a store new to the map goes behind the others; a store already in it
\* keeps its place; a store taken out leaves the others in their order
MapOrderStep ==
    /\ (req'.op = "POST /prices" /\ resp'.status = 200)
          => LET n == toLowerCase(req'.arg.name)
                 store == IF req'.arg.store_id # "" THEN req'.arg.store_id
                          ELSE storesConfig.default_store
                 old == StoreOrder(workspaces, req'.ws, n)
             IN StoreOrder(workspaces', req'.ws, n)
                   = IF \E i \in 1..Len(old) : old[i] = store THEN old
                     ELSE Append(old, store)
    /\ (/\ req'.op = "DELETE /prices/:productName"
        /\ resp'.status = 200
        /\ req'.arg.store_id # "")
          => StoreOrder(workspaces', req'.ws, toLowerCase(req'.arg.name))
                = SelectSeq(StoreOrder(workspaces, req'.ws, toLowerCase(req'.arg.name)),
                            LAMBDA x : x # req'.arg.store_id)

\* C33: when several stores hold the minimum price of a product, best_store
\* is the first of them in the order of the store map, which is the order in
\* which the stores received their first price for the product; setting the
\* price of a store already in the map does not move it.
C33_FirstMinimumWins == [][MapOrderStep]_vars /\ []TieFirst

(* ---------------------------------------------------------------------- *)
(* C34: the workspace of the routes under /workspace/:id                   *)
(* ---------------------------------------------------------------------- *)
PathRouteOps ==
    {"GET /workspace/:id/state", "GET /workspace/:id/base-basket",
     "PUT /workspace/:id/base-basket", "POST /workspace/:id/init-basket"}

\* a request on one of these routes that was served: the token belongs to
\* the workspace of the path, the answer is about it, and no other
\* workspace is written
PathWorkspaceStep ==
    (req'.op \in PathRouteOps /\ resp'.status = 200)
       => /\ req'.path \in DOMAIN workspaces
          /\ req'.token \in Range(workspaces[req'.path].active_clients)
          /\ "workspace_id" \in DOMAIN resp'.body => resp'.body.workspace_id = req'.path
          /\ \A v \in DOMAIN workspaces \ {req'.path} : workspaces'[v] = workspaces[v]

\* C34: for the routes /workspace/{id}/state, /workspace/{id}/base-basket and
\* /workspace/{id}/init-basket the workspace that is authenticated against,
\* read and modified is the one named by {id} in the request path.
C34_PathNamesWorkspace == [][PathWorkspaceStep]_vars

(* ---------------------------------------------------------------------- *)
(* C35: the lists of a client follow the lists of the server               *)
(* ---------------------------------------------------------------------- *)
\* the ids of a list, in its order
IdOrder(list) == [i \in 1..Len(list) |-> list[i].id]

\* the snapshot sent on connection lists the stored products and recipes
SnapshotLists ==
    \A w \in DOMAIN workspaces :
        /\ IdOrder(StateMessage(workspaces[w]).data.products)
              = IdOrder(workspaces[w].products)
        /\ IdOrder(StateMessage(workspaces[w]).data.recipes)
              = IdOrder(workspaces[w].recipes)

\* a client whose lists have the ids of the stored ones before the step has,
\* after each event of the step, the ids of the lists stored by the step
ListsFollowStep ==
    \A w \in DOMAIN workspaces :
        \A k \in 1..Len(EventsTo(trace', w)) :
            LET events == SubSeq(EventsTo(trace', w), 1, k) IN
            /\ IdOrder(ApplyProductMessages(workspaces[w].products, events))
                  = IdOrder(workspaces'[w].products)
            /\ IdOrder(ApplyRecipeMessages(workspaces[w].recipes, events))
                  = IdOrder(workspaces'[w].recipes)

\* C35: a connected client that sets its product and recipe lists from the
\* state snapshot and then applies every product and recipe event in the
\* order received holds, after each event, lists with the same ids in the
\* same order as the lists the server has stored for the workspace.
C35_ClientListsFollow == [][ListsFollowStep]_vars /\ []SnapshotLists

(* ---------------------------------------------------------------------- *)
(* C36: the frontend when everything has arrived                           *)
(* ---------------------------------------------------------------------- *)
\* the client is connected, has loaded its state, and nothing is on the way
Delivered ==
    /\ client.connected
    /\ client.toFetch = {}
    /\ client.fetched = <<>>
    /\ client.ws = <<>>
    /\ client.http = <<>>

\* C36: once no more requests are issued and every HTTP response and
\* WebSocket message has been delivered, the local products and prices of a
\* connected frontend equal the data stored for its workspace, for every
\* order in which responses (initial state fetch, set price, delete price,
\* delete product) and events of different requests arrive.
C36_ClientConverges ==
    Delivered
       => /\ client.currentProducts = workspaces[ClientWorkspace].products
          /\ client.currentPrices = PricesOf(workspaces[ClientWorkspace])


(* ---------------------------------------------------------------------- *)
(* C37: the category an event carries and the category read back           *)
(* ---------------------------------------------------------------------- *)
\* what GET /products answers for workspace w on the stored data
ProductsRead(w) == JsonProducts(NormalizedProducts(workspaces[w].products))

\* the product messages among the broadcasts of the last request
ProductEvents ==
    SelectSeq(Broadcasts(trace),
              LAMBDA e : e.msg.type \in {"product_created", "product_updated"})

\* C37: the product carried by every product_created and product_updated
\* event has the category that a GET /products issued right after the event
\* returns for that product.
C37_EventCategoryIsReadCategory ==
    \A k \in 1..Len(ProductEvents) :
        LET e == ProductEvents[k] IN
        \A i \in 1..Len(ProductsRead(e.ws)) :
            ProductsRead(e.ws)[i].id = e.msg.data.id
               => ProductsRead(e.ws)[i].category = e.msg.data.category


(* ---------------------------------------------------------------------- *)
(* C38: what a price deletion reports and what it removed                  *)
(* ---------------------------------------------------------------------- *)
DeletePriceOp == "DELETE /prices/:productName"

\* the price entries of a table: one per product and store
PriceEntries(prices) ==
    UNION { {<<n, prices[n].stores[i].id>> : i \in 1..Len(prices[n].stores)} :
            n \in DOMAIN prices }

\* the price table a workspace id stands for in a store
TableOf(store, w) == IF w \in DOMAIN store THEN PricesOf(store[w]) ELSE <<>>

\* a deletion that broadcast price_deleted or was answered with success
\* removed an entry; one that names a store without an entry for the
\* product leaves the stored data as it was
DeleteReportsRemovalStep ==
    req'.op = DeletePriceOp
       => LET before == PriceEntries(TableOf(workspaces, req'.ws))
              after == PriceEntries(TableOf(workspaces', req'.ws))
          IN
          /\ (resp'.status = 200 \/ Broadcasts(trace') # <<>>)
                => /\ after \subseteq before
                   /\ after # before
          /\ (req'.arg.store_id # ""
                /\ <<toLowerCase(req'.arg.name), req'.arg.store_id>> \notin before)
                => workspaces' = workspaces

\* C38: a price_deleted event is broadcast, and the delete request answered
\* with success, only when the request removed at least one price entry from
\* the persisted price table; a deletion naming a store that has no entry for
\* the product changes nothing.
C38_DeleteReportsRemoval == [][DeleteReportsRemovalStep]_vars

====
